---- MODULE Spec2Model ----
(***************************************************************************)
(* Rotation assignment engine of the calendar-rotation proof of concept    *)
(* (server: src/unnamed/part_000).  The in-memory store `data`, the        *)
(* external Google calendar and the request handlers are modelled as a     *)
(* state machine.  Every handler is split where the code awaits: a step   *)
(* runs a handler from one await (a calendar call, a token refresh, the    *)
(* write of data.json) to the next, or to its answer; the write of         *)
(* data.json itself goes through the file being opened (and truncated),    *)
(* its text being complete, and the promise settling.  A write fails when  *)
(* the volume refuses the open or has no room for the text; the rejection  *)
(* of a handler that has no try/catch ends the server process.             *)
(***************************************************************************)
EXTENDS Integers, Sequences, FiniteSets, TLC

\* ---------------------------------------------------------------- bounds
MaxWeeks == 3      \* largest numWeeks a trigger request asks for
MaxEvents == 3     \* calendar event ids the provider hands out in one run
MaxPicks == 4      \* consecutive selections logged in the selector runs

\* ------------------------------------------------------------ value sets
UserIds == {"v1", "v3", "v9"}
GroupIds == {"g1", "g2"}
UnknownGroup == "gX"        \* a group id no group of the store has
NoUser == ""                \* JS null / undefined user id (falsy)
NoEvent == 0                \* JS undefined calendarEventId (falsy)
NoRotation == 0

\* Dates are day numbers; day 0 is Monday 2026-02-16 (the spec's scenario),
\* so day 14 is 2026-03-02 and day 20 is Sunday 2026-03-08, the day on which
\* America/Los_Angeles (the zone the code names) switches to daylight time.
StartDates == {0, 14}

VARIABLES
  groups,      \* data.groups: group id -> [members, currentIndex]
  skipWeeks,   \* data.skipWeeks: sequence of [userId, groupId, weekStartDate]
  rotations,   \* data.rotations: sequence of rotation records
  tokens,      \* data.users[..].googleTokens.expiry_date per user id, or
               \* NoTokens for an id data.users holds no user of
  calendar,    \* the provider: set of <<userId, eventId>> that exist
  nextEvent,   \* next event id the provider hands out
  nextRot,     \* next rotation id generateId hands out
  zone,        \* time zone of the server process
  now,         \* the clock: hours since day 0, 00:00 UTC
  req,         \* the requests in flight, one per slot
  picks,       \* log of consecutive successful selections (selector runs)
  client,      \* oauth2Client: the user whose credentials it carries
  disk,        \* data.json: the text the file holds
  writes,      \* the fs.writeFile calls in flight, per slot
  volume       \* the volume data.json is on: "ok", "readOnly" or "full"

vars == <<groups, skipWeeks, rotations, tokens, calendar, nextEvent, nextRot,
          zone, now, req, picks, client, disk, writes, volume>>

\* ------------------------------------------------------- date utilities
\* A zone: standard offset from UTC in hours, and the day (local) on which
\* clocks go forward by one hour at 02:00 (-1: never).
UTC == [off |-> 0, dstDay |-> -1]
LosAngeles == [off |-> -8, dstDay |-> 20]
Zones == {UTC, LosAngeles}

\* Offset (hours) in force at the UTC instant t (hours since day 0, 00:00Z).
OffsetAtUtc(z, t) ==
  IF z.dstDay >= 0 /\ t >= 24 * z.dstDay + 2 - z.off THEN z.off + 1 ELSE z.off

\* Offset in force at local wall-clock time w (hours); a wall time inside
\* the skipped hour is read with the offset before the switch.
OffsetAtWall(z, w) ==
  IF z.dstDay >= 0 /\ w >= 24 * z.dstDay + 3 THEN z.off + 1 ELSE z.off

\* addWeeks: new Date("YYYY-MM-DD") is midnight UTC; getDate/setDate work on
\* the local calendar date; toISOString().split('T')[0] is the UTC date.
addWeeks(z, dateString, numWeeks) ==
  LET t0 == 24 * dateString
      wall0 == t0 + OffsetAtUtc(z, t0)
      wall1 == ((wall0 \div 24) + numWeeks * 7) * 24 + (wall0 % 24)
      t1 == wall1 - OffsetAtWall(z, wall1)
  IN  t1 \div 24

\* ---------------------------------------------------- rotation algorithm
\* [...group.members].sort((a, b) => a.orderPosition - b.orderPosition):
\* Array.prototype.sort is stable, so equal positions keep insertion order.
InsertByPos(sorted, m) ==
  LET k == Cardinality({i \in 1..Len(sorted) :
                          sorted[i].orderPosition <= m.orderPosition})
  IN  SubSeq(sorted, 1, k) \o <<m>> \o SubSeq(sorted, k + 1, Len(sorted))

RECURSIVE SortFrom(_, _, _)
SortFrom(members, i, acc) ==
  IF i > Len(members) THEN acc
  ELSE SortFrom(members, i + 1, InsertByPos(acc, members[i]))

\* Variant of sortedMembers: the sort left out.
sortedMembersUnsorted(members) == members
sortedMembers(members) == SortFrom(members, 1, <<>>)

\* data.skipWeeks.some(skip => skip.userId === userId && skip.groupId ===
\* groupId && skip.weekStartDate === targetWeekDate)
\* Variant of hasSkip: the group id is not compared.
hasSkipAnyGroup(skips, userId, groupId, targetWeekDate) ==
  \E i \in 1..Len(skips) :
    /\ skips[i].userId = userId
    /\ skips[i].weekStartDate = targetWeekDate
hasSkip(skips, userId, groupId, targetWeekDate) ==
  \E i \in 1..Len(skips) :
    /\ skips[i].userId = userId
    /\ skips[i].groupId = groupId
    /\ skips[i].weekStartDate = targetWeekDate

\* The while loop of getNextRotationAssignment; `examined` counts the
\* candidates whose skip weeks were looked up.
RECURSIVE Scan(_, _, _, _, _, _)
Scan(sorted, skips, groupId, targetWeekDate, currentIndex, attempts) ==
  IF attempts < Len(sorted)
  THEN LET candidate == sorted[(currentIndex % Len(sorted)) + 1]
       IN  IF ~hasSkip(skips, candidate.userId, groupId, targetWeekDate)
           THEN [assignedUserId |-> candidate.userId,
                 currentIndex |-> currentIndex, examined |-> attempts + 1]
           ELSE Scan(sorted, skips, groupId, targetWeekDate,
                     currentIndex + 1, attempts + 1)
  ELSE [assignedUserId |-> NoUser, currentIndex |-> currentIndex,
        examined |-> attempts]

\* Variant of newIndex: the modulo left out.
newIndexNoWrap(currentIndex, n) == currentIndex + 1
\* group.currentIndex = (currentIndex + 1) % sortedMembers.length
newIndex(currentIndex, n) == (currentIndex + 1) % n

\* Variant of getNextRotationAssignment: the cursor is written before the
\* "All users have skip weeks" test.
getNextRotationAssignmentEager(grps, skips, groupId, targetWeekDate) ==
  IF groupId \notin DOMAIN grps
  THEN [error |-> "Group not found", userId |-> NoUser, groups |-> grps,
        examined |-> 0]
  ELSE IF Len(grps[groupId].members) = 0
  THEN [error |-> "Group has no members", userId |-> NoUser, groups |-> grps,
        examined |-> 0]
  ELSE
    LET sorted == sortedMembers(grps[groupId].members)
        r == Scan(sorted, skips, groupId, targetWeekDate,
                  grps[groupId].currentIndex, 0)
        after == [grps EXCEPT ![groupId].currentIndex =
                    newIndex(r.currentIndex, Len(sorted))]
    IN  IF r.assignedUserId = NoUser
        THEN [error |-> "All users have skip weeks", userId |-> NoUser,
              groups |-> after, examined |-> r.examined]
        ELSE [error |-> "", userId |-> r.assignedUserId,
              groups |-> after, examined |-> r.examined]

\* Variant of getNextRotationAssignment: the cursor moves on from where it
\* stood, so a candidate that was passed over is next in line again.
getNextRotationAssignmentRequeue(grps, skips, groupId, targetWeekDate) ==
  IF groupId \notin DOMAIN grps
  THEN [error |-> "Group not found", userId |-> NoUser, groups |-> grps,
        examined |-> 0]
  ELSE IF Len(grps[groupId].members) = 0
  THEN [error |-> "Group has no members", userId |-> NoUser, groups |-> grps,
        examined |-> 0]
  ELSE
    LET sorted == sortedMembers(grps[groupId].members)
        r == Scan(sorted, skips, groupId, targetWeekDate,
                  grps[groupId].currentIndex, 0)
    IN  IF r.assignedUserId = NoUser
        THEN [error |-> "All users have skip weeks", userId |-> NoUser,
              groups |-> grps, examined |-> r.examined]
        ELSE [error |-> "", userId |-> r.assignedUserId,
              groups |-> [grps EXCEPT ![groupId].currentIndex =
                            newIndex(grps[groupId].currentIndex,
                                     Len(sorted))],
              examined |-> r.examined]
\* getNextRotationAssignment(groupId, targetWeekDate) on the store (grps,
\* skips): the value returned or the error thrown, and the groups after it.
getNextRotationAssignment(grps, skips, groupId, targetWeekDate) ==
  IF groupId \notin DOMAIN grps
  THEN [error |-> "Group not found", userId |-> NoUser, groups |-> grps,
        examined |-> 0]
  ELSE IF Len(grps[groupId].members) = 0
  THEN [error |-> "Group has no members", userId |-> NoUser, groups |-> grps,
        examined |-> 0]
  ELSE
    LET sorted == sortedMembers(grps[groupId].members)
        r == Scan(sorted, skips, groupId, targetWeekDate,
                  grps[groupId].currentIndex, 0)
    IN  IF r.assignedUserId = NoUser
        THEN [error |-> "All users have skip weeks", userId |-> NoUser,
              groups |-> grps, examined |-> r.examined]
        ELSE [error |-> "", userId |-> r.assignedUserId,
              groups |-> [grps EXCEPT ![groupId].currentIndex =
                            newIndex(r.currentIndex, Len(sorted))],
              examined |-> r.examined]

\* ------------------------------------------------- calendar integration
\* A user's googleTokens are kept as their expiry_date (hours of the clock
\* `now`); NoTokens stands for an id data.users holds no user of.
NoTokens == -1
\* Hours an access token lasts from the moment the provider issues it.
TokenLife == 1

\* What createCalendarEvent does before its first await, called at time t:
\* the two checks that throw, then the expiry test Date.now() >=
\* user.googleTokens.expiry_date that decides whether it refreshes.
createPrefix(toks, grps, userId, groupId, t) ==
  IF toks[userId] = NoTokens THEN "User not authenticated"
  ELSE IF groupId \notin DOMAIN grps THEN "Group not found"
  ELSE IF t >= toks[userId] THEN "refresh"
  ELSE "insert"

\* What deleteCalendarEvent does before its await.
deletePrefix(toks, userId) ==
  IF toks[userId] = NoTokens THEN "User not authenticated" ELSE "delete"

\* calendar.events.delete succeeds only for an event that exists in the
\* user's calendar, and may fail even then.
CanDelete(userId, eventId) == <<userId, eventId>> \in calendar

\* --------------------------------------------------------------- requests
\* A handler is one step from each await to the next: a request's pc names
\* the call it is suspended on ("refresh", "saveTokens", "insert", "delete",
\* "getToken", "userinfo", "save"), is "done" once it has answered, or is
\* "crashed" when a handler's promise rejected outside any try/catch: the
\* unhandled rejection ends the server process, and neither this request
\* nor any other in flight is answered.
Slots == {1, 2}
Idle == [op |-> "idle", pc |-> "idle"]
\* The server process has not exited.
Running == \A s \in Slots : req[s].pc # "crashed"
\* The server is up and takes a request in slot s.
IsIdle(s) == Running /\ req[s].op = "idle"
\* What a request finds when it starts: the store, the calendar, and the
\* slots whose request was started before it.
Snapshot == [groups |-> groups, skipWeeks |-> skipWeeks,
             rotations |-> rotations, calendar |-> calendar,
             tokens |-> tokens,
             earlier |-> {o \in Slots : req[o].op # "idle"}]

\* res.status(code).json({ error }) / res.json({ success: true, ... })
Respond(r, status, error) ==
  [r EXCEPT !.pc = "done", !.status = status, !.error = error]

\* The data object, as JSON.stringify(data) renders it.
Store(g, k, r, t) ==
  [groups |-> g, skipWeeks |-> k, rotations |-> r, tokens |-> t]

\* data.json: the text of one data object, or text that is not JSON (an
\* empty file, a part of a text, a mix of two texts).
File(d) == <<d>>
NotJson == <<>>

\* saveData() called at the end of the step of slot s (the request then
\* waits at "save" or "saveTokens"): JSON.stringify(data) is taken at once,
\* fs.writeFile is called with it and the file is as it was.
saveData(s) ==
  /\ disk' = disk
  /\ volume' = volume
  /\ writes' = IF req'[s].pc \in {"save", "saveTokens"}
               THEN [writes EXCEPT ![s] =
                       <<[data |-> Store(groups', skipWeeks', rotations',
                                         tokens'),
                          rivals |-> {}, phase |-> "called"]>>]
               ELSE writes

\* The fs.writeFile of slot s is in the given phase: "called", "open" (the
\* file is open for writing) or "written" (its text is complete).
InPhase(s, phase) == writes[s] # <<>> /\ writes[s][1].phase = phase

\* The slots other than s whose fs.writeFile has the file open too.
openToo(s) == {o \in Slots \ {s} : InPhase(o, "open")}

\* The texts the file may hold when the text of slot s is complete: its
\* own, or that of a write that completed while this one had the file open.
written(s) == {writes[s][1].data} \cup writes[s][1].rivals

\* fs.writeFile of slot s opens data.json with flag 'w': the file is
\* truncated, and holds no text or a part of one until a text is complete.
FileOpen(s) ==
  /\ InPhase(s, "called") /\ volume # "readOnly"
  /\ disk' = NotJson
  /\ writes' = [writes EXCEPT ![s] = <<[@[1] EXCEPT !.phase = "open"]>>]
  /\ UNCHANGED <<groups, skipWeeks, rotations, tokens, calendar, nextEvent,
                 nextRot, zone, now, req, picks, client, volume>>

\* fs.writeFile of slot s has written its text.  A write that had the file
\* to itself leaves its text there; two writeFile calls that have the file
\* open at once are not ordered, and leave the text of either or a mix of
\* both.
FileWritten(s) ==
  /\ InPhase(s, "open") /\ volume # "full"
  /\ disk' \in {File(d) : d \in written(s)}
                 \cup (IF writes[s][1].rivals = {} /\ openToo(s) = {}
                       THEN {} ELSE {NotJson})
  /\ writes' = [o \in Slots |->
                  IF o = s THEN <<[writes[s][1] EXCEPT !.phase = "written"]>>
                  ELSE IF o \in openToo(s)
                  THEN <<[writes[o][1] EXCEPT
                            !.rivals = @ \cup {writes[s][1].data}]>>
                  ELSE writes[o]]
  /\ UNCHANGED <<groups, skipWeeks, rotations, tokens, calendar, nextEvent,
                 nextRot, zone, now, req, picks, client, volume>>

\* The fs.writeFile of slot s fails: the file cannot be opened (read-only
\* volume, EACCES / EROFS), or it was opened and truncated and the text
\* cannot be written (full volume, ENOSPC).
rejects(s) ==
  \/ InPhase(s, "called") /\ volume = "readOnly"
  \/ InPhase(s, "open") /\ volume = "full"

\* The promise of fs.writeFile of slot s settles: it resolves once the text
\* is complete, or rejects.  A write that could not open the file leaves it
\* as it was; one that failed after the open leaves the truncated file, with
\* no text or a part of one.
writeFile(s, ok) ==
  /\ IF ok THEN InPhase(s, "written") ELSE rejects(s)
  /\ volume' = volume
  /\ disk' \in IF ~ok /\ InPhase(s, "open") THEN {disk, NotJson} ELSE {disk}
  /\ writes' = [writes EXCEPT ![s] = <<>>]

\* oauth2Client.setCredentials(user.googleTokens): run by the step of slot
\* s exactly when createCalendarEvent / deleteCalendarEvent passed its
\* checks, that is when the request now waits for a calendar call.
setCredentials(s) ==
  client' = IF req'[s].pc \in {"delete", "refresh", "insert"}
            THEN req'[s].calUser
            ELSE client

\* createCalendarEvent goes on to its await: the refresh, or the insert,
\* which is then issued at once with the credentials just set.
issue(r, step) ==
  [r EXCEPT !.pc = step,
            !.creds = IF step = "insert" THEN r.calUser ELSE NoUser]

\* The request is over: its answer has been sent and the slot is free
\* again.
Reply(s) ==
  /\ Running
  /\ req[s].pc = "done"
  /\ req' = [req EXCEPT ![s] = Idle]
  /\ UNCHANGED <<groups, skipWeeks, rotations, tokens, calendar, nextEvent,
                 nextRot, zone, now, picks>>
  /\ UNCHANGED <<client, disk, writes, volume>>

\* const { credentials } = await oauth2Client.refreshAccessToken() settles:
\* user.googleTokens = credentials, then saveData() is called and awaited;
\* a rejection reaches the handler's catch.  Whether the client library
\* keeps the refreshed credentials in the shared client is not decided by
\* this program's code.
Refresh(s) ==
  /\ req[s].pc = "refresh"
  /\ \E ok \in BOOLEAN :
       IF ok
       THEN /\ tokens' = [tokens EXCEPT ![req[s].calUser] = now + TokenLife]
            /\ client' \in {client, req[s].calUser}
            /\ req' = [req EXCEPT ![s].pc = "saveTokens"]
       ELSE /\ tokens' = tokens
            /\ client' = client
            /\ req' = [req EXCEPT ![s] =
                 Respond([req[s] EXCEPT !.failed =
                            IF req[s].op = "trigger" THEN "calendar"
                            ELSE "create"],
                         500, "refresh failed")]
  /\ UNCHANGED <<groups, skipWeeks, rotations, calendar, nextEvent, nextRot,
                 zone, now, picks>>
  /\ saveData(s)

\* The saveData() of createCalendarEvent (line 100) settles: the event is
\* built and calendar.events.insert is issued through the shared client,
\* with the credentials the client carries by now; a rejected write is
\* thrown by createCalendarEvent and reaches the handler's catch.
RefreshSaved(s) ==
  /\ req[s].pc = "saveTokens"
  /\ \E ok \in BOOLEAN :
       /\ writeFile(s, ok)
       /\ req' = [req EXCEPT ![s] =
            IF ok THEN [req[s] EXCEPT !.pc = "insert", !.creds = client]
            ELSE Respond([req[s] EXCEPT !.failed =
                            IF req[s].op = "trigger" THEN "calendar"
                            ELSE "create"],
                         500, "write failed")]
  /\ UNCHANGED <<groups, skipWeeks, rotations, tokens, calendar, nextEvent,
                 nextRot, zone, now, picks, client>>

\* The handlers whose await saveData() is inside no try/catch: POST
\* /api/groups, POST /api/groups/:groupId/members and POST /api/skip.
Uncaught == {"createGroup", "addMember", "skip"}

\* The requests once the final saveData() of slot s has rejected: the
\* catch of the handler answers with the error page of the OAuth callback
\* (status 200) or with 500 and the error's message; a handler without
\* try/catch leaves an unhandled rejection, the process exits, and every
\* request in flight is left without an answer.
saveFailed(s) ==
  IF req[s].op \in Uncaught
  THEN [o \in Slots |->
          IF o = s \/ req[o].pc \notin {"idle", "done"}
          THEN [req[o] EXCEPT !.pc = "crashed"]
          ELSE req[o]]
  ELSE [req EXCEPT ![s] =
          IF req[s].op = "callback" THEN Respond(req[s], 200, "write failed")
          ELSE Respond(req[s], 500, "write failed")]

\* The saveData() a handler ends with settles, and the handler answers;
\* the remove-member handler then reads user.name, which throws for an id
\* data.users holds no user of.
Saved(s) ==
  /\ req[s].pc = "save"
  /\ \E ok \in BOOLEAN :
       /\ writeFile(s, ok)
       /\ req' = IF ~ok THEN saveFailed(s)
                 ELSE [req EXCEPT ![s] =
                         IF req[s].op = "removeMember"
                            /\ tokens[req[s].userId] = NoTokens
                         THEN Respond(req[s], 500, "TypeError")
                         ELSE Respond(req[s], 200, "")]
  /\ UNCHANGED <<groups, skipWeeks, rotations, tokens, calendar, nextEvent,
                 nextRot, zone, now, picks, client>>

\* ----------------------------------------------------- GET /auth/callback
\* The id generateId('user') hands out to the first account that is not in
\* data.users.
NewUser == "u1"
Users == UserIds \cup {NewUser}

\* The handler up to oauth2Client.getToken(code); u is the account that
\* gave its consent.
AuthStart(s, u) ==
  /\ IsIdle(s)
  /\ req' = [req EXCEPT ![s] =
       [op |-> "callback", pc |-> "getToken", userId |-> u,
        expiry |-> NoTokens, status |-> 0, error |-> "", pre |-> Snapshot]]
  /\ UNCHANGED <<groups, skipWeeks, rotations, tokens, calendar, nextEvent,
                 nextRot, zone, now, picks>>
  /\ UNCHANGED <<client, disk, writes, volume>>

\* getToken settles: the shared client is given the account's new tokens
\* and userinfo.get is issued; a rejection is answered with an error page.
AuthToken(s) ==
  /\ req[s].op = "callback" /\ req[s].pc = "getToken"
  /\ \E ok \in BOOLEAN :
       IF ok
       THEN /\ client' = req[s].userId
            /\ req' = [req EXCEPT ![s].pc = "userinfo",
                                  ![s].expiry = now + TokenLife]
       ELSE /\ client' = client
            /\ req' = [req EXCEPT ![s] =
                 Respond(req[s], 200, "getToken failed")]
  /\ UNCHANGED <<groups, skipWeeks, rotations, tokens, calendar, nextEvent,
                 nextRot, zone, now, picks>>
  /\ UNCHANGED <<disk, writes, volume>>

\* userinfo.get settles: the user of that e-mail address is given the new
\* tokens (a user is created for an address data.users does not hold), and
\* saveData() is called.
AuthUser(s) ==
  /\ req[s].op = "callback" /\ req[s].pc = "userinfo"
  /\ \E ok \in BOOLEAN :
       IF ok
       THEN /\ tokens' = [tokens EXCEPT ![req[s].userId] = req[s].expiry]
            /\ req' = [req EXCEPT ![s].pc = "save"]
       ELSE /\ tokens' = tokens
            /\ req' = [req EXCEPT ![s] =
                 Respond(req[s], 200, "userinfo failed")]
  /\ UNCHANGED <<groups, skipWeeks, rotations, calendar, nextEvent, nextRot,
                 zone, now, picks, client>>
  /\ saveData(s)

\* ------------------------------------------------------ POST /api/groups
\* A group's schedule: dayOfWeek as POST /api/groups stores it
\* (parseInt(dayOfWeek) || 1) and timeOfDay "HH:MM" as the pair hh, mm
\* (timeOfDay || '09:00').
dayOfWeekOf(input) == IF input = 0 THEN 1 ELSE input
DaysOfWeek == 0..7
Hours == 0..23
Minutes == {0, 1, 30, 59}
Schedule(d, hh, mm) == [dayOfWeek |-> dayOfWeekOf(d), hh |-> hh, mm |-> mm]

\* The id generateId('group') hands out to the group a run creates.
NewGroup == "g3"

\* The handler up to its saveData(): a group without members, cursor 0.
CreateGroup(s, dayOfWeek, hh, mm) ==
  /\ IsIdle(s)
  /\ NewGroup \notin DOMAIN groups
  /\ groups' = [g \in DOMAIN groups \cup {NewGroup} |->
                  IF g = NewGroup
                  THEN [members |-> <<>>, currentIndex |-> 0,
                        schedule |-> Schedule(dayOfWeek, hh, mm)]
                  ELSE groups[g]]
  /\ req' = [req EXCEPT ![s] =
       [op |-> "createGroup", pc |-> "save", groupId |-> NewGroup,
        status |-> 0, error |-> "", pre |-> Snapshot]]
  /\ UNCHANGED <<skipWeeks, rotations, tokens, calendar, nextEvent, nextRot,
                 zone, now, picks, client>>
  /\ saveData(s)

\* ------------------------------------------- POST /api/trigger/:groupId
\* req.body.numWeeks || 1
numWeeksOf(body) == IF body = 0 THEN 1 ELSE body

\* Variant of TriggerSelect: the cursor is the one the request read when it
\* started, advanced by its own selections only.
TriggerSelectStale(r) ==
  LET targetDate == addWeeks(zone, r.startDate, r.i)
      stale == IF r.groupId \in DOMAIN groups
               THEN [groups EXCEPT ![r.groupId].currentIndex =
                       r.pre.groups[r.groupId].currentIndex + r.nSel]
               ELSE groups
      sel == getNextRotationAssignment(stale, skipWeeks, r.groupId,
                                       targetDate)
      r1 == [r EXCEPT !.targetDate = targetDate, !.nSel = @ + 1]
  IN  IF sel.error # ""
      THEN [groups |-> sel.groups,
            req |-> Respond([r1 EXCEPT !.failed = "selector"], 500,
                            sel.error)]
      ELSE LET step == createPrefix(tokens, sel.groups, sel.userId,
                                    r.groupId, now)
               r2 == [r1 EXCEPT !.calUser = sel.userId, !.nCal = @ + 1,
                        !.curs = Append(@,
                                   sel.groups[r.groupId].currentIndex)]
           IN  [groups |-> sel.groups,
                req |-> IF step \in {"refresh", "insert"}
                        THEN issue(r2, step)
                        ELSE Respond([r2 EXCEPT !.failed = "calendar"],
                                     500, step)]
\* One pass of the loop of request r up to the await inside
\* createCalendarEvent: addWeeks, getNextRotationAssignment, then
\* createCalendarEvent's checks and setCredentials; the groups and the
\* request as the pass leaves them.
TriggerSelect(r) ==
  LET targetDate == addWeeks(zone, r.startDate, r.i)
      sel == getNextRotationAssignment(groups, skipWeeks, r.groupId,
                                       targetDate)
      r1 == [r EXCEPT !.targetDate = targetDate, !.nSel = @ + 1]
  IN  IF sel.error # ""
      THEN [groups |-> sel.groups,
            req |-> Respond([r1 EXCEPT !.failed = "selector"], 500,
                            sel.error)]
      ELSE LET step == createPrefix(tokens, sel.groups, sel.userId,
                                    r.groupId, now)
               r2 == [r1 EXCEPT !.calUser = sel.userId, !.nCal = @ + 1,
                        !.curs = Append(@,
                                   sel.groups[r.groupId].currentIndex)]
           IN  [groups |-> sel.groups,
                req |-> IF step \in {"refresh", "insert"}
                        THEN issue(r2, step)
                        ELSE Respond([r2 EXCEPT !.failed = "calendar"],
                                     500, step)]

\* The handler up to its first await: the first pass of the loop.
TriggerStart(s, groupId, body, startDate) ==
  /\ IsIdle(s)
  /\ nextEvent + numWeeksOf(body) - 1 <= MaxEvents
  /\ LET r0 == [op |-> "trigger", pc |-> "start", groupId |-> groupId,
                numWeeks |-> numWeeksOf(body), startDate |-> startDate,
                i |-> 0, targetDate |-> startDate, calUser |-> NoUser,
                created |-> <<>>, status |-> 0, error |-> "", failed |-> "",
                pre |-> Snapshot, nSel |-> 0, nCal |-> 0, curs |-> <<>>,
                creds |-> NoUser]
         pass == TriggerSelect(r0)
     IN  /\ groups' = pass.groups
         /\ req' = [req EXCEPT ![s] = pass.req]
  /\ UNCHANGED <<skipWeeks, rotations, tokens, calendar, nextEvent, nextRot,
                 zone, now, picks>>
  /\ setCredentials(s)
  /\ saveData(s)

\* Variant of newRotation: the event id is not stored.
newRotationNoEvent(id, groupId, userId, weekStartDate, eventId) ==
  [id |-> id, groupId |-> groupId, assignedUserId |-> userId,
   weekStartDate |-> weekStartDate, calendarEventId |-> NoEvent,
   status |-> "scheduled", swappedAt |-> "unset"]
newRotation(id, groupId, userId, weekStartDate, eventId) ==
  [id |-> id, groupId |-> groupId, assignedUserId |-> userId,
   weekStartDate |-> weekStartDate, calendarEventId |-> eventId,
   status |-> "scheduled", swappedAt |-> "unset"]

\* calendar.events.insert settles; on success the rotation is pushed and,
\* in the same turn, either the next pass of the loop runs up to its await
\* or the loop ends and saveData() is called.
TriggerInsert(s) ==
  /\ req[s].op = "trigger" /\ req[s].pc = "insert"
  /\ LET r == req[s] IN
     \E ok \in BOOLEAN :
       IF ok
       THEN LET rotation == newRotation(nextRot, r.groupId, r.calUser,
                                        r.targetDate, nextEvent)
                r1 == [r EXCEPT !.created = Append(@, rotation),
                                !.i = @ + 1]
                pass == TriggerSelect(r1)
            IN  /\ calendar' = calendar \cup {<<r.creds, nextEvent>>}
                /\ nextEvent' = nextEvent + 1
                /\ nextRot' = nextRot + 1
                /\ rotations' = Append(rotations, rotation)
                /\ IF r1.i < r1.numWeeks
                   THEN /\ groups' = pass.groups
                        /\ req' = [req EXCEPT ![s] = pass.req]
                   ELSE /\ groups' = groups
                        /\ req' = [req EXCEPT ![s] =
                                     [r1 EXCEPT !.pc = "save"]]
       ELSE /\ req' = [req EXCEPT ![s] =
                 Respond([r EXCEPT !.failed = "calendar"], 500,
                         "insert failed")]
            /\ UNCHANGED <<groups, calendar, nextEvent, nextRot, rotations>>
  /\ UNCHANGED <<skipWeeks, tokens, zone, now, picks>>
  /\ setCredentials(s)
  /\ saveData(s)

\* ------------------------------------------------------- POST /api/swap
\* data.rotations.find(r => r.groupId === groupId && r.weekStartDate ===
\* weekStartDate && r.assignedUserId === fromUserId): index of the first
\* match, 0 when none.
swapMatch(r, groupId, weekStartDate, fromUserId) ==
  /\ r.groupId = groupId
  /\ r.weekStartDate = weekStartDate
  /\ r.assignedUserId = fromUserId

findSwapRotation(rots, groupId, weekStartDate, fromUserId) ==
  LET hits == {i \in 1..Len(rots) :
                 swapMatch(rots[i], groupId, weekStartDate, fromUserId)}
  IN  IF hits = {} THEN 0
      ELSE CHOOSE i \in hits : \A j \in hits : i <= j

\* data.rotations.find(r => r.id === req.params.rotationId)
findRotationById(rots, rotationId) ==
  LET hits == {i \in 1..Len(rots) : rots[i].id = rotationId}
  IN  IF hits = {} THEN 0
      ELSE CHOOSE i \in hits : \A j \in hits : i <= j

\* The handler up to its first await: the lookup, then either
\* deleteCalendarEvent's check or, with no event id, createCalendarEvent's.
SwapStart(s, groupId, weekStartDate, fromUserId, toUserId) ==
  /\ IsIdle(s)
  /\ nextEvent <= MaxEvents
  /\ LET idx == findSwapRotation(rotations, groupId, weekStartDate,
                                 fromUserId)
         r0 == [op |-> "swap", pc |-> "start", groupId |-> groupId,
                weekStartDate |-> weekStartDate, fromUserId |-> fromUserId,
                toUserId |-> toUserId, calUser |-> NoUser,
                rotationId |-> NoRotation, eventId |-> NoEvent,
                status |-> 0, error |-> "", failed |-> "", pre |-> Snapshot,
                nDel |-> 0, nIns |-> 0, creds |-> NoUser]
     IN  req' = [req EXCEPT ![s] =
           IF idx = 0 THEN Respond(r0, 404, "Rotation not found")
           ELSE
             LET rot == rotations[idx]
                 r1 == [r0 EXCEPT !.rotationId = rot.id,
                                  !.eventId = rot.calendarEventId]
             IN  IF rot.calendarEventId # NoEvent
                 THEN LET step == deletePrefix(tokens, fromUserId)
                          r2 == [r1 EXCEPT !.calUser = fromUserId,
                                           !.nDel = @ + 1]
                      IN  IF step = "delete" THEN [r2 EXCEPT !.pc = "delete"]
                          ELSE Respond([r2 EXCEPT !.failed = "delete"],
                                       500, step)
                 ELSE LET step == createPrefix(tokens, groups, toUserId,
                                               groupId, now)
                          r2 == [r1 EXCEPT !.calUser = toUserId,
                                           !.nIns = @ + 1]
                      IN  IF step \in {"refresh", "insert"}
                          THEN issue(r2, step)
                          ELSE Respond([r2 EXCEPT !.failed = "create"],
                                       500, step)]
  /\ UNCHANGED <<groups, skipWeeks, rotations, tokens, calendar, nextEvent,
                 nextRot, zone, now, picks>>
  /\ setCredentials(s)
  /\ saveData(s)

\* Variant of SwapDelete: a rejected delete is swallowed and the create is
\* issued all the same.
SwapDeleteLenient(s) ==
  /\ req[s].op = "swap" /\ req[s].pc = "delete"
  /\ LET r == req[s] IN
     \E ok \in BOOLEAN :
       LET step == createPrefix(tokens, groups, r.toUserId, r.groupId, now)
           r1 == [r EXCEPT !.calUser = r.toUserId, !.nIns = @ + 1]
       IN  /\ calendar' = IF ok /\ CanDelete(r.fromUserId, r.eventId)
                          THEN calendar \ {<<r.fromUserId, r.eventId>>}
                          ELSE calendar
           /\ req' = [req EXCEPT ![s] =
                IF step \in {"refresh", "insert"}
                THEN issue(r1, step)
                ELSE Respond([r1 EXCEPT !.failed = "create"], 500, step)]
  /\ UNCHANGED <<groups, skipWeeks, rotations, tokens, nextEvent, nextRot,
                 zone, now, picks>>
  /\ setCredentials(s)
  /\ saveData(s)
\* calendar.events.delete of the old event settles; on success
\* createCalendarEvent(toUserId, ...) runs up to its first await.
SwapDelete(s) ==
  /\ req[s].op = "swap" /\ req[s].pc = "delete"
  /\ LET r == req[s] IN
     \E ok \in BOOLEAN :
       IF ok /\ CanDelete(r.fromUserId, r.eventId)
       THEN LET step == createPrefix(tokens, groups, r.toUserId, r.groupId,
                                     now)
                r1 == [r EXCEPT !.calUser = r.toUserId, !.nIns = @ + 1]
            IN  /\ calendar' = calendar \ {<<r.fromUserId, r.eventId>>}
                /\ req' = [req EXCEPT ![s] =
                     IF step \in {"refresh", "insert"}
                     THEN issue(r1, step)
                     ELSE Respond([r1 EXCEPT !.failed = "create"],
                                  500, step)]
       ELSE /\ calendar' = calendar
            /\ req' = [req EXCEPT ![s] =
                 Respond([r EXCEPT !.failed = "delete"], 500,
                         "delete failed")]
  /\ UNCHANGED <<groups, skipWeeks, rotations, tokens, nextEvent, nextRot,
                 zone, now, picks>>
  /\ setCredentials(s)
  /\ saveData(s)

\* Variant of swapRotation: the status is rewritten too.
swapRotationStatus(rot, toUserId, newEventId) ==
  [rot EXCEPT !.assignedUserId = toUserId,
              !.calendarEventId = newEventId,
              !.swappedAt = "set",
              !.status = "swapped"]
\* rotation.assignedUserId = toUserId; rotation.calendarEventId =
\* newEventId; rotation.swappedAt = new Date().toISOString()
swapRotation(rot, toUserId, newEventId) ==
  [rot EXCEPT !.assignedUserId = toUserId,
              !.calendarEventId = newEventId,
              !.swappedAt = "set"]

\* Variant of SwapInsert: the rotation is updated before the outcome of the
\* insert is known.
SwapInsertEager(s) ==
  /\ req[s].op = "swap" /\ req[s].pc = "insert"
  /\ LET r == req[s] IN
     \E ok \in BOOLEAN :
       /\ rotations' = [k \in 1..Len(rotations) |->
            IF rotations[k].id = r.rotationId
            THEN swapRotation(rotations[k], r.toUserId,
                              IF ok THEN nextEvent ELSE NoEvent)
            ELSE rotations[k]]
       /\ IF ok
          THEN /\ calendar' = calendar \cup {<<r.creds, nextEvent>>}
               /\ nextEvent' = nextEvent + 1
               /\ req' = [req EXCEPT ![s].pc = "save"]
          ELSE /\ req' = [req EXCEPT ![s] =
                    Respond([r EXCEPT !.failed = "create"], 500,
                            "insert failed")]
               /\ UNCHANGED <<calendar, nextEvent>>
  /\ UNCHANGED <<groups, skipWeeks, tokens, nextRot, zone, now, picks>>
  /\ client' = client
  /\ saveData(s)

\* calendar.events.insert for toUserId settles; on success the rotation
\* found at the start is updated in place and saveData() is called.
SwapInsert(s) ==
  /\ req[s].op = "swap" /\ req[s].pc = "insert"
  /\ LET r == req[s] IN
     \E ok \in BOOLEAN :
       IF ok
       THEN /\ calendar' = calendar \cup {<<r.creds, nextEvent>>}
            /\ nextEvent' = nextEvent + 1
            /\ rotations' = [k \in 1..Len(rotations) |->
                 IF rotations[k].id = r.rotationId
                 THEN swapRotation(rotations[k], r.toUserId, nextEvent)
                 ELSE rotations[k]]
            /\ req' = [req EXCEPT ![s].pc = "save"]
       ELSE /\ req' = [req EXCEPT ![s] =
                 Respond([r EXCEPT !.failed = "create"], 500,
                         "insert failed")]
            /\ UNCHANGED <<calendar, nextEvent, rotations>>
  /\ UNCHANGED <<groups, skipWeeks, tokens, nextRot, zone, now, picks>>
  /\ client' = client
  /\ saveData(s)

\* --------------------------------- DELETE /api/rotations/:rotationId
\* Variant of removeRotation: the filter keeps the rotation it was to drop.
removeRotationKept(rots, rotationId) ==
  LET Keep(r) == r.id = rotationId IN SelectSeq(rots, Keep)
\* data.rotations.filter(r => r.id !== req.params.rotationId)
removeRotation(rots, rotationId) ==
  LET Keep(r) == r.id # rotationId IN SelectSeq(rots, Keep)

\* A rotation object a suspended handler holds by reference: its fields are
\* those of the store's rotation while it is there, and stay what they were
\* when a filter dropped it from data.rotations.
liveRotation(rots, held) ==
  LET idx == findRotationById(rots, held.id)
  IN  IF idx = 0 THEN held ELSE rots[idx]

\* The objects of futureRotations (line 313) of a remove-member request
\* suspended in its loop, as a filter of another request leaves them.
holdRemoved(rq, rots) ==
  IF rq.op = "removeMember" /\ rq.pc = "delete"
  THEN [rq EXCEPT !.future =
          [k \in DOMAIN rq.future |-> liveRotation(rots, rq.future[k])]]
  ELSE rq

\* req with slot s replaced by r, the other slots keeping the objects they
\* hold when this step filters data.rotations.
afterFilter(s, r) ==
  [o \in Slots |-> IF o = s THEN r ELSE holdRemoved(req[o], rotations)]

\* The handler up to its first await: the lookup, then deleteCalendarEvent
\* up to its await or, for a rotation without an event, the filter and
\* saveData().
CancelStart(s, rotationId) ==
  /\ IsIdle(s)
  /\ LET idx == findRotationById(rotations, rotationId)
         r0 == [op |-> "cancel", pc |-> "start", rotationId |-> rotationId,
                calUser |-> NoUser, eventId |-> NoEvent, status |-> 0,
                error |-> "", failed |-> "", pre |-> Snapshot, nDel |-> 0]
     IN  IF idx = 0
         THEN /\ req' = [req EXCEPT ![s] =
                   Respond(r0, 404, "Rotation not found")]
              /\ rotations' = rotations
         ELSE
           LET rot == rotations[idx] IN
           IF rot.calendarEventId # NoEvent
           THEN LET step == deletePrefix(tokens, rot.assignedUserId)
                    r1 == [r0 EXCEPT !.calUser = rot.assignedUserId,
                                     !.eventId = rot.calendarEventId,
                                     !.nDel = @ + 1]
                IN  /\ req' = [req EXCEPT ![s] =
                         IF step = "delete" THEN [r1 EXCEPT !.pc = "delete"]
                         ELSE Respond([r1 EXCEPT !.failed = "delete"],
                                      500, step)]
                    /\ rotations' = rotations
           ELSE /\ rotations' = removeRotation(rotations, rotationId)
                /\ req' = afterFilter(s, [r0 EXCEPT !.pc = "save"])
  /\ UNCHANGED <<groups, skipWeeks, tokens, calendar, nextEvent, nextRot,
                 zone, now, picks>>
  /\ setCredentials(s)
  /\ saveData(s)

\* Variant of CancelDelete: the rotation is dropped whatever the outcome of
\* the calendar delete.
CancelDeleteEager(s) ==
  /\ req[s].op = "cancel" /\ req[s].pc = "delete"
  /\ LET r == req[s] IN
     \E ok \in BOOLEAN :
       /\ rotations' = removeRotation(rotations, r.rotationId)
       /\ IF ok /\ CanDelete(r.calUser, r.eventId)
          THEN /\ calendar' = calendar \ {<<r.calUser, r.eventId>>}
               /\ req' = afterFilter(s, [r EXCEPT !.pc = "save"])
          ELSE /\ calendar' = calendar
               /\ req' = afterFilter(s,
                    Respond([r EXCEPT !.failed = "delete"], 500,
                            "delete failed"))
  /\ UNCHANGED <<groups, skipWeeks, tokens, nextEvent, nextRot, zone, now,
                 picks>>
  /\ client' = client
  /\ saveData(s)
\* calendar.events.delete of the rotation's event settles; on success the
\* rotation is filtered out of the store and saveData() is called.
CancelDelete(s) ==
  /\ req[s].op = "cancel" /\ req[s].pc = "delete"
  /\ LET r == req[s] IN
     \E ok \in BOOLEAN :
       IF ok /\ CanDelete(r.calUser, r.eventId)
       THEN /\ calendar' = calendar \ {<<r.calUser, r.eventId>>}
            /\ rotations' = removeRotation(rotations, r.rotationId)
            /\ req' = afterFilter(s, [r EXCEPT !.pc = "save"])
       ELSE /\ req' = [req EXCEPT ![s] =
                 Respond([r EXCEPT !.failed = "delete"], 500,
                         "delete failed")]
            /\ UNCHANGED <<calendar, rotations>>
  /\ UNCHANGED <<groups, skipWeeks, tokens, nextEvent, nextRot, zone, now,
                 picks>>
  /\ client' = client
  /\ saveData(s)

\* ------------------------------------ POST /api/groups/:groupId/members
\* The handler up to its saveData(), or to the answer of a failed check.
AddMember(s, groupId, userId) ==
  /\ IsIdle(s)
  /\ LET r0 == [op |-> "addMember", pc |-> "start", groupId |-> groupId,
                userId |-> userId, status |-> 0, error |-> "",
                pre |-> Snapshot]
     IN  IF groupId \notin DOMAIN groups
         THEN /\ req' = [req EXCEPT ![s] = Respond(r0, 404, "Group not found")]
              /\ groups' = groups
         ELSE IF \E i \in 1..Len(groups[groupId].members) :
                   groups[groupId].members[i].userId = userId
         THEN /\ req' = [req EXCEPT ![s] =
                   Respond(r0, 400, "User already in group")]
              /\ groups' = groups
         ELSE /\ groups' = [groups EXCEPT ![groupId].members =
                   Append(@, [userId |-> userId, orderPosition |-> Len(@)])]
              /\ req' = [req EXCEPT ![s] = [r0 EXCEPT !.pc = "save"]]
  /\ picks' = <<>>
  /\ UNCHANGED <<skipWeeks, rotations, tokens, calendar, nextEvent, nextRot,
                 zone, now>>
  /\ client' = client
  /\ saveData(s)

\* ---------------------- DELETE /api/groups/:groupId/members/:userId
\* new Date(r.weekStartDate) >= new Date(): midnight UTC of the week's
\* first day against the current instant.
isFuture(weekStartDate, t) == 24 * weekStartDate >= t

\* Variant of removeFuture: the filter leaves the group out and drops the
\* user's future rotations of every group.
removeFutureAnyGroup(rots, groupId, userId, t) ==
  LET Keep(r) == ~(/\ r.assignedUserId = userId
                   /\ isFuture(r.weekStartDate, t))
  IN  SelectSeq(rots, Keep)
\* data.rotations.filter(r => !(... && new Date(r.weekStartDate) >= new
\* Date())), the second evaluation of the filter, at time t.
removeFuture(rots, groupId, userId, t) ==
  LET Keep(r) == ~(/\ r.groupId = groupId
                   /\ r.assignedUserId = userId
                   /\ isFuture(r.weekStartDate, t))
  IN  SelectSeq(rots, Keep)

\* The loop's next rotation after position i whose calendarEventId, read
\* from the object when the loop reaches it, is set; 0 when there is none.
nextWithEvent(future, rots, i) ==
  LET hits == {k \in (i + 1)..Len(future) :
                 liveRotation(rots, future[k]).calendarEventId # NoEvent}
  IN  IF hits = {} THEN 0
      ELSE CHOOSE k \in hits : \A j \in hits : k <= j

\* Variant of RemoveStart: the cursor is brought back into the range of
\* the remaining members.
RemoveStartClamp(s, groupId, userId) ==
  /\ IsIdle(s)
  /\ LET r0 == [op |-> "removeMember", pc |-> "start", groupId |-> groupId,
                userId |-> userId, status |-> 0, error |-> "",
                calUser |-> userId, pre |-> Snapshot, count |-> 0,
                future |-> <<>>, i |-> 0, eventId |-> NoEvent, nDel |-> 0,
                removed |-> 0]
     IN  IF groupId \notin DOMAIN groups
         THEN /\ req' = [req EXCEPT ![s] = Respond(r0, 404, "Group not found")]
              /\ UNCHANGED <<groups, rotations>>
         ELSE
           LET KeepMember(m) == m.userId # userId
               Matches(r) == /\ r.groupId = groupId
                             /\ r.assignedUserId = userId
                             /\ isFuture(r.weekStartDate, now)
               future == SelectSeq(rotations, Matches)
               k == IF deletePrefix(tokens, userId) = "delete"
                    THEN nextWithEvent(future, rotations, 0)
                    ELSE 0
               left == removeFuture(rotations, groupId, userId, now)
               members == SelectSeq(groups[groupId].members, KeepMember)
               r1 == [r0 EXCEPT !.count = Len(future), !.future = future]
               r2 == [r1 EXCEPT !.removed = Len(rotations) - Len(left)]
           IN  /\ groups' = [groups EXCEPT
                    ![groupId].members = members,
                    ![groupId].currentIndex =
                       IF Len(members) = 0 THEN 0 ELSE @ % Len(members)]
               /\ IF k # 0
                  THEN /\ req' = [req EXCEPT ![s] =
                            [r1 EXCEPT !.pc = "delete", !.i = k,
                                       !.eventId = future[k].calendarEventId,
                                       !.nDel = 1]]
                       /\ rotations' = rotations
                  ELSE /\ rotations' = left
                       /\ req' = afterFilter(s, [r2 EXCEPT !.pc = "save"])
  /\ picks' = <<>>
  /\ UNCHANGED <<skipWeeks, tokens, calendar, nextEvent, nextRot, zone, now>>
  /\ setCredentials(s)
  /\ saveData(s)
\* The handler up to its first await: the member filter, the first
\* evaluation of the future-rotation filter, and the first calendar delete
\* issued.  A user with no record makes every deleteCalendarEvent throw at
\* once, and a loop with nothing to delete runs through to the second
\* filter and saveData().
RemoveStart(s, groupId, userId) ==
  /\ IsIdle(s)
  /\ LET r0 == [op |-> "removeMember", pc |-> "start", groupId |-> groupId,
                userId |-> userId, status |-> 0, error |-> "",
                calUser |-> userId, pre |-> Snapshot, count |-> 0,
                future |-> <<>>, i |-> 0, eventId |-> NoEvent, nDel |-> 0,
                removed |-> 0]
     IN  IF groupId \notin DOMAIN groups
         THEN /\ req' = [req EXCEPT ![s] = Respond(r0, 404, "Group not found")]
              /\ UNCHANGED <<groups, rotations>>
         ELSE
           LET KeepMember(m) == m.userId # userId
               Matches(r) == /\ r.groupId = groupId
                             /\ r.assignedUserId = userId
                             /\ isFuture(r.weekStartDate, now)
               future == SelectSeq(rotations, Matches)
               k == IF deletePrefix(tokens, userId) = "delete"
                    THEN nextWithEvent(future, rotations, 0)
                    ELSE 0
               left == removeFuture(rotations, groupId, userId, now)
               r1 == [r0 EXCEPT !.count = Len(future), !.future = future]
               r2 == [r1 EXCEPT !.removed = Len(rotations) - Len(left)]
           IN  /\ groups' = [groups EXCEPT ![groupId].members =
                               SelectSeq(@, KeepMember)]
               /\ IF k # 0
                  THEN /\ req' = [req EXCEPT ![s] =
                            [r1 EXCEPT !.pc = "delete", !.i = k,
                                       !.eventId = future[k].calendarEventId,
                                       !.nDel = 1]]
                       /\ rotations' = rotations
                  ELSE /\ rotations' = left
                       /\ req' = afterFilter(s, [r2 EXCEPT !.pc = "save"])
  /\ picks' = <<>>
  /\ UNCHANGED <<skipWeeks, tokens, calendar, nextEvent, nextRot, zone, now>>
  /\ setCredentials(s)
  /\ saveData(s)

\* A calendar delete of the loop settles (a failure is logged and ignored):
\* the loop goes on to its next rotation with an event, or the handler
\* filters data.rotations at the current time and calls saveData(); it will
\* answer with the length of the list it computed at the start (`removed`
\* keeps how many rotations the filter dropped).
RemoveDelete(s) ==
  /\ req[s].op = "removeMember" /\ req[s].pc = "delete"
  /\ LET r == req[s]
         k == nextWithEvent(r.future, rotations, r.i)
         left == removeFuture(rotations, r.groupId, r.userId, now)
     IN  /\ \E ok \in BOOLEAN :
              calendar' = IF ok /\ CanDelete(r.userId, r.eventId)
                          THEN calendar \ {<<r.userId, r.eventId>>}
                          ELSE calendar
         /\ IF k # 0
            THEN /\ req' = [req EXCEPT ![s] =
                      [r EXCEPT !.i = k,
                                !.eventId = liveRotation(rotations,
                                               r.future[k]).calendarEventId,
                                !.nDel = @ + 1]]
                 /\ rotations' = rotations
            ELSE /\ rotations' = left
                 /\ req' = afterFilter(s,
                      [r EXCEPT !.removed = Len(rotations) - Len(left),
                                !.pc = "save"])
  /\ UNCHANGED <<groups, skipWeeks, tokens, nextEvent, nextRot, zone, now,
                 picks>>
  /\ setCredentials(s)
  /\ saveData(s)
\* ------------------------------------------------------- POST /api/skip
\* Variant of AddSkip: the lookup of an existing skip week is left out.
AddSkipUnchecked(s, userId, groupId, weekStartDate) ==
  /\ IsIdle(s)
  /\ LET r0 == [op |-> "skip", pc |-> "start", groupId |-> groupId,
                userId |-> userId, weekStartDate |-> weekStartDate,
                status |-> 0, error |-> "", pre |-> Snapshot]
     IN  /\ skipWeeks' = Append(skipWeeks,
               [userId |-> userId, groupId |-> groupId,
                weekStartDate |-> weekStartDate])
         /\ req' = [req EXCEPT ![s] = [r0 EXCEPT !.pc = "save"]]
  /\ picks' = <<>>
  /\ UNCHANGED <<groups, rotations, tokens, calendar, nextEvent, nextRot,
                 zone, now>>
  /\ client' = client
  /\ saveData(s)
\* Variant of AddSkip: the skip week is pushed before the lookup.
AddSkipPushFirst(s, userId, groupId, weekStartDate) ==
  /\ IsIdle(s)
  /\ LET r0 == [op |-> "skip", pc |-> "start", groupId |-> groupId,
                userId |-> userId, weekStartDate |-> weekStartDate,
                status |-> 0, error |-> "", pre |-> Snapshot]
     IN  /\ skipWeeks' = Append(skipWeeks,
               [userId |-> userId, groupId |-> groupId,
                weekStartDate |-> weekStartDate])
         /\ req' = [req EXCEPT ![s] =
              IF hasSkip(skipWeeks, userId, groupId, weekStartDate)
              THEN Respond(r0, 400, "Skip already exists")
              ELSE [r0 EXCEPT !.pc = "save"]]
  /\ picks' = <<>>
  /\ UNCHANGED <<groups, rotations, tokens, calendar, nextEvent, nextRot,
                 zone, now>>
  /\ client' = client
  /\ saveData(s)
\* The handler up to its saveData(), or to the answer of the failed check.
AddSkip(s, userId, groupId, weekStartDate) ==
  /\ IsIdle(s)
  /\ LET r0 == [op |-> "skip", pc |-> "start", groupId |-> groupId,
                userId |-> userId, weekStartDate |-> weekStartDate,
                status |-> 0, error |-> "", pre |-> Snapshot]
     IN  IF hasSkip(skipWeeks, userId, groupId, weekStartDate)
         THEN /\ req' = [req EXCEPT ![s] =
                   Respond(r0, 400, "Skip already exists")]
              /\ skipWeeks' = skipWeeks
         ELSE /\ skipWeeks' = Append(skipWeeks,
                   [userId |-> userId, groupId |-> groupId,
                    weekStartDate |-> weekStartDate])
              /\ req' = [req EXCEPT ![s] = [r0 EXCEPT !.pc = "save"]]
  /\ picks' = <<>>
  /\ UNCHANGED <<groups, rotations, tokens, calendar, nextEvent, nextRot,
                 zone, now>>
  /\ client' = client
  /\ saveData(s)

\* ------------------------------- getNextRotationAssignment, called alone
\* One call of the selector on the store; a successful call is appended to
\* the log of consecutive selections of its group.
Select(s, groupId, targetWeekDate) ==
  /\ IsIdle(s)
  /\ LET sel == getNextRotationAssignment(groups, skipWeeks, groupId,
                                          targetWeekDate)
         r0 == [op |-> "select", pc |-> "start", groupId |-> groupId,
                targetDate |-> targetWeekDate, userId |-> sel.userId,
                examined |-> sel.examined, status |-> 0, error |-> "",
                pre |-> Snapshot]
         entry == [groupId |-> groupId, userId |-> sel.userId,
                   cursor |-> groups[groupId].currentIndex]
     IN  /\ groups' = sel.groups
         /\ req' = [req EXCEPT ![s] =
              IF sel.error = "" THEN Respond(r0, 200, "")
              ELSE Respond(r0, 500, sel.error)]
         /\ picks' = IF sel.error # "" THEN <<>>
                     ELSE IF picks # <<>> /\ picks[1].groupId = groupId
                     THEN Append(picks, entry)
                     ELSE <<entry>>
  /\ UNCHANGED <<skipWeeks, rotations, tokens, calendar, nextEvent, nextRot,
                 zone, now>>
  /\ UNCHANGED <<client, disk, writes, volume>>

\* ------------------------------------------------------ the file system
\* The states of the volume data.json is on: it takes writes, it lets no
\* file be opened for writing, or it lets files be opened (and truncated)
\* but has no room for their text.
Volumes == {"ok", "readOnly", "full"}

\* A run starts on a volume in one of these states (chosen by each Init).
\* The environment changes it: the volume is remounted read-only or
\* read-write, fills up, or gets room again.
Remount ==
  /\ \E v \in Volumes : v # volume /\ volume' = v
  /\ UNCHANGED <<groups, skipWeeks, rotations, tokens, calendar, nextEvent,
                 nextRot, zone, now, req, picks, client, disk, writes>>

\* ------------------------------------------------------------ the stores
\* Connected accounts: the users of `valid` hold an access token that has
\* not expired at time t, those of `expired` one that has; any other id is
\* one data.users holds no user of.
Tokens(valid, expired, t) ==
  [u \in Users |-> IF u \in valid THEN t + TokenLife
                   ELSE IF u \in expired THEN t
                   ELSE NoTokens]

\* The file and the in-flight writes of a server that has just saved its
\* data.
Settled ==
  /\ disk = File(Store(groups, skipWeeks, rotations, tokens))
  /\ writes = [s \in Slots |-> <<>>]

\* --------------------------------------------------- the selector runs
\* Group g1 is built by add-member / remove-member on top of a list of skip
\* weeks recorded earlier, and the selector is called on the result.
SelDates == {0, 7}
EmptyGroups ==
  [g \in GroupIds |-> [members |-> <<>>, currentIndex |-> 0,
                       schedule |-> Schedule(0, 9, 0)]]
Skip(u, g, w) == [userId |-> u, groupId |-> g, weekStartDate |-> w]

\* The skip weeks a selector run starts with: any sublist of these.
SkipPool == <<Skip("v1", "g1", 0), Skip("v3", "g1", 0), Skip("v9", "g1", 0),
              Skip("v1", "g2", 0), Skip("v1", "g1", 7)>>
SubLists(pool) ==
  {SelectSeq(pool, LAMBDA x : x \in S) :
     S \in SUBSET {pool[i] : i \in 1..Len(pool)}}

\* The skip weeks of the selector runs: two members of g1 for week 0, and
\* one of another group and one of another week.
SelSkipPool == <<Skip("v1", "g1", 0), Skip("v3", "g1", 0),
                 Skip("v1", "g2", 0), Skip("v1", "g1", 7)>>

InitSel ==
  /\ groups = EmptyGroups
  /\ skipWeeks \in SubLists(SelSkipPool)
  /\ rotations = <<>>
  /\ now = 12
  /\ tokens = Tokens({"v1", "v3"}, {}, now)
  /\ calendar = {}
  /\ nextEvent = 1
  /\ nextRot = 1
  /\ zone = UTC
  /\ req = [s \in Slots |-> Idle]
  /\ picks = <<>>
  /\ client = NoUser
  /\ Settled
  /\ volume \in Volumes

NextSel ==
  \/ \E u \in UserIds : AddMember(1, "g1", u)
  \/ AddMember(1, UnknownGroup, "v1")
  \/ \E u \in UserIds : RemoveStart(1, "g1", u)
  \/ RemoveStart(1, UnknownGroup, "v1")
  \/ FileOpen(1)
  \/ FileWritten(1)
  \/ Saved(1)
  \/ \E gw \in {<<"g1", 0>>, <<"g1", 7>>, <<"g2", 0>>, <<UnknownGroup, 0>>} :
       /\ Select(1, gw[1], gw[2])
       /\ Len(picks') <= MaxPicks
  \/ Reply(1)

SpecSel == InitSel /\ [][NextSel]_vars

\* ------------------------------------------------------ the server runs
\* The store the server starts from: group g1 holds v1 and v3 (the scenario
\* of the specification), group g2 holds g2members; v1 and v3 have
\* connected their Google accounts (v3's access token has expired), v9 has
\* not.
SeedGroups(g2members) ==
  [g \in GroupIds |->
     IF g = "g1"
     THEN [members |-> <<[userId |-> "v1", orderPosition |-> 0],
                         [userId |-> "v3", orderPosition |-> 1]>>,
           currentIndex |-> 0, schedule |-> Schedule(0, 9, 0)]
     ELSE [members |-> g2members, currentIndex |-> 0,
           schedule |-> Schedule(0, 9, 0)]]

SeedSkips == {<<>>,
              <<Skip("v1", "g1", 0)>>,
              <<Skip("v1", "g1", 7), Skip("v3", "g1", 7)>>}

InitWith(skips, zones, g2members) ==
  /\ groups = SeedGroups(g2members)
  /\ skipWeeks \in skips
  /\ rotations = <<>>
  /\ now = 12
  /\ tokens = Tokens({"v1"}, {"v3"}, now)
  /\ calendar = {}
  /\ nextEvent = 1
  /\ nextRot = 1
  /\ zone \in zones
  /\ req = [s \in Slots |-> Idle]
  /\ picks = <<>>
  /\ client = NoUser
  /\ Settled
  /\ volume \in Volumes

\* Batch scheduling alone: trigger requests, one after the other, for
\* every seed of skip weeks, both zones and both start dates.
InitTrig == InitWith(SeedSkips, Zones, <<>>)

NextTrig ==
  \/ \E g \in GroupIds \cup {UnknownGroup}, body \in 0..MaxWeeks,
        d \in StartDates : TriggerStart(1, g, body, d)
  \/ TriggerInsert(1)
  \/ Refresh(1)
  \/ RefreshSaved(1)
  \/ FileOpen(1)
  \/ FileWritten(1)
  \/ Saved(1)
  \/ Reply(1)

SpecTrig == InitTrig /\ [][NextTrig]_vars

\* The (group, week, user) triples a swap request names: those of the
\* rotations in the store, and one that matches none of them.
SwapKeys ==
  {<<rotations[i].groupId, rotations[i].weekStartDate,
     rotations[i].assignedUserId>> : i \in 1..Len(rotations)}
  \cup {<<"g1", 0, "v9">>}

\* Scheduling, swapping and cancelling, one request at a time (slot 1), on
\* a volume that takes every write.
Init ==
  /\ InitWith({<<>>, <<Skip("v1", "g1", 0)>>}, Zones,
              <<[userId |-> "v3", orderPosition |-> 0]>>)
  /\ volume = "ok"

Next ==
  \/ \E g \in GroupIds, body \in 0..MaxWeeks : TriggerStart(1, g, body, 0)
  \/ TriggerInsert(1)
  \/ Refresh(1)
  \/ RefreshSaved(1)
  \/ \E k \in SwapKeys, to \in UserIds : SwapStart(1, k[1], k[2], k[3], to)
  \/ SwapDelete(1)
  \/ SwapInsert(1)
  \/ \E id \in 1..nextRot : CancelStart(1, id)
  \/ CancelDelete(1)
  \/ FileOpen(1)
  \/ FileWritten(1)
  \/ Saved(1)
  \/ Reply(1)

Spec == Init /\ [][Next]_vars

\* The handlers of the store but swap (which Spec covers), one request at
\* a time (slot 1): members are added and removed, skip weeks recorded,
\* rotations scheduled and cancelled.  The clock stands at noon of day 7,
\* so that the weeks 0, 7 and 14 a batch schedules lie before, on and after
\* today.
Clocks == {180}
SkipKeys == {<<"v1", "g1", 0>>}

InitStore ==
  /\ groups = SeedGroups(<<>>)
  /\ skipWeeks = <<>>
  /\ rotations = <<>>
  /\ now \in Clocks
  /\ tokens = Tokens({"v1"}, {"v3"}, now)
  /\ calendar = {}
  /\ nextEvent = 1
  /\ nextRot = 1
  /\ zone = UTC
  /\ req = [s \in Slots |-> Idle]
  /\ picks = <<>>
  /\ client = NoUser
  /\ Settled
  /\ volume \in Volumes

NextStore ==
  \/ \E g \in GroupIds \cup {UnknownGroup}, body \in 0..MaxWeeks :
       TriggerStart(1, g, body, 0)
  \/ TriggerInsert(1)
  \/ Refresh(1)
  \/ RefreshSaved(1)
  \/ \E id \in 1..nextRot : CancelStart(1, id)
  \/ CancelDelete(1)
  \/ \E g \in {"g1", UnknownGroup} : AddMember(1, g, "v9")
  \/ \E g \in {"g1", UnknownGroup}, u \in {"v1", "v9"} :
       RemoveStart(1, g, u)
  \/ RemoveDelete(1)
  \/ \E k \in SkipKeys : AddSkip(1, k[1], k[2], k[3])
  \/ FileOpen(1)
  \/ FileWritten(1)
  \/ Saved(1)
  \/ Reply(1)

SpecStore == InitStore /\ [][NextStore]_vars

\* Every handler of the store, one request at a time (slot 1), on the store
\* of SpecStore: batches of one week (week 14, which lies after today),
\* swaps to v3, cancellations, members added and removed, skip weeks
\* recorded, each with inputs the handler accepts and inputs it refuses (a
\* group, a rotation or a (group, week, user) triple the store does not
\* hold, a group without members, a skip week recorded before).
NextReject ==
  \/ \E g \in GroupIds \cup {UnknownGroup} : TriggerStart(1, g, 1, 14)
  \/ TriggerInsert(1)
  \/ Refresh(1)
  \/ RefreshSaved(1)
  \/ \E k \in SwapKeys : SwapStart(1, k[1], k[2], k[3], "v3")
  \/ SwapDelete(1)
  \/ SwapInsert(1)
  \/ \E id \in 1..nextRot : CancelStart(1, id)
  \/ CancelDelete(1)
  \/ \E g \in {"g1", UnknownGroup} : AddMember(1, g, "v9")
  \/ \E g \in {"g1", UnknownGroup}, u \in {"v1", "v9"} :
       RemoveStart(1, g, u)
  \/ RemoveDelete(1)
  \/ \E k \in SkipKeys : AddSkip(1, k[1], k[2], k[3])
  \/ FileOpen(1)
  \/ FileWritten(1)
  \/ Saved(1)
  \/ Reply(1)

SpecReject == InitStore /\ [][NextReject]_vars

\* Skip weeks alone: requests for the keys of SkipPool, in any order and
\* any number of times, on a store without skip weeks and a file system
\* that may refuse the file.
InitSkip == InitWith({<<>>}, {UTC}, <<>>)

NextSkip ==
  \/ \E i \in 1..Len(SkipPool) :
       AddSkip(1, SkipPool[i].userId, SkipPool[i].groupId,
               SkipPool[i].weekStartDate)
  \/ FileOpen(1)
  \/ FileWritten(1)
  \/ Saved(1)
  \/ Remount
  \/ Reply(1)

SpecSkip == InitSkip /\ [][NextSkip]_vars

\* Two selections in a row on a group of three members A = v1, B = v3,
\* C = v9 (orderPositions 0, 1, 2), for every cursor the selector can leave
\* and every list of skip weeks of SkipPool: the first call is recorded in
\* slot 1, the call that follows it in slot 2.
ThreeMembers ==
  <<[userId |-> "v1", orderPosition |-> 0],
    [userId |-> "v3", orderPosition |-> 1],
    [userId |-> "v9", orderPosition |-> 2]>>

InitPass ==
  /\ \E c \in 0..2 :
       groups = [g \in GroupIds |->
                   IF g = "g1"
                   THEN [members |-> ThreeMembers, currentIndex |-> c,
                         schedule |-> Schedule(0, 9, 0)]
                   ELSE [members |-> <<>>, currentIndex |-> 0,
                         schedule |-> Schedule(0, 9, 0)]]
  /\ skipWeeks \in SubLists(SkipPool)
  /\ rotations = <<>>
  /\ now = 12
  /\ tokens = Tokens(UserIds, {}, now)
  /\ calendar = {}
  /\ nextEvent = 1
  /\ nextRot = 1
  /\ zone = UTC
  /\ req = [s \in Slots |-> Idle]
  /\ picks = <<>>
  /\ client = NoUser
  /\ Settled
  /\ volume = "ok"

NextPass ==
  \/ \E g \in GroupIds, w \in SelDates :
       /\ IsIdle(2)
       /\ Select(1, g, w)
       /\ Len(picks') <= MaxPicks
  \/ \E g \in GroupIds, w \in SelDates :
       /\ req[1].pc = "done"
       /\ Select(2, g, w)
       /\ Len(picks') <= MaxPicks
  \/ Reply(1)
  \/ IsIdle(1) /\ Reply(2)

SpecPass == InitPass /\ [][NextPass]_vars
\* ------------------------------------------- createCalendarEvent, alone
\* The event resource: startTime = `${weekStartDate}T${timeOfDay}:00`,
\* endHour = parseInt(timeOfDay.split(':')[0]) + 1, endTime =
\* `${weekStartDate}T${endHour}:00:00`; both in one fixed time zone.  A
\* dateTime is kept as the date, hour and minute its text names.
eventResource(schedule, weekStartDate) ==
  [start |-> [date |-> weekStartDate, hh |-> schedule.hh,
              mm |-> schedule.mm],
   end |-> [date |-> weekStartDate, hh |-> schedule.hh + 1, mm |-> 0]]

\* getRotationDate of the dashboard: weekStartDate is a Monday and
\* dayOfWeek is 1 = Monday ... 7 = Sunday.
getRotationDate(weekStartDate, dayOfWeek) == weekStartDate + (dayOfWeek - 1)

\* One call of createCalendarEvent(userId, groupId, weekStartDate) up to
\* its first await.
CreateEventStart(s, userId, groupId, weekStartDate) ==
  /\ IsIdle(s)
  /\ nextEvent <= MaxEvents
  /\ LET step == createPrefix(tokens, groups, userId, groupId, now)
         r0 == [op |-> "create", pc |-> "start", groupId |-> groupId,
                userId |-> userId, calUser |-> userId,
                weekStartDate |-> weekStartDate, eventId |-> NoEvent,
                event |-> <<>>, status |-> 0, error |-> "", failed |-> "",
                pre |-> Snapshot, creds |-> NoUser]
     IN  req' = [req EXCEPT ![s] =
           IF step \in {"refresh", "insert"} THEN issue(r0, step)
           ELSE Respond([r0 EXCEPT !.failed = "create"], 500, step)]
  /\ UNCHANGED <<groups, skipWeeks, rotations, tokens, calendar, nextEvent,
                 nextRot, zone, now, picks>>
  /\ setCredentials(s)
  /\ saveData(s)

\* calendar.events.insert({ calendarId: 'primary', resource: event })
\* settles; the provider stores the resource it was sent.
CreateEventInsert(s) ==
  /\ req[s].op = "create" /\ req[s].pc = "insert"
  /\ LET r == req[s]
         event == eventResource(groups[r.groupId].schedule, r.weekStartDate)
     IN  \E ok \in BOOLEAN :
           IF ok
           THEN /\ calendar' = calendar \cup {<<r.creds, nextEvent>>}
                /\ nextEvent' = nextEvent + 1
                /\ req' = [req EXCEPT ![s] =
                     Respond([r EXCEPT !.event = event,
                                       !.eventId = nextEvent], 200, "")]
           ELSE /\ req' = [req EXCEPT ![s] =
                     Respond([r EXCEPT !.failed = "create"], 500,
                             "insert failed")]
                /\ UNCHANGED <<calendar, nextEvent>>
  /\ UNCHANGED <<groups, skipWeeks, rotations, tokens, nextRot, zone, now,
                 picks>>
  /\ UNCHANGED <<client, disk, writes, volume>>

\* Calendar events alone: group g1 has any schedule POST /api/groups can
\* store, and events are created for its members for either start date.
InitEvent ==
  /\ \E d \in DaysOfWeek, hh \in Hours, mm \in Minutes :
       groups = [SeedGroups(<<>>) EXCEPT !["g1"].schedule =
                   Schedule(d, hh, mm)]
  /\ skipWeeks = <<>>
  /\ rotations = <<>>
  /\ now = 12
  /\ tokens = Tokens({"v1"}, {"v3"}, now)
  /\ calendar = {}
  /\ nextEvent = 1
  /\ nextRot = 1
  /\ zone = UTC
  /\ req = [s \in Slots |-> Idle]
  /\ picks = <<>>
  /\ client = NoUser
  /\ Settled
  /\ volume \in Volumes

NextEvent ==
  \/ \E u \in UserIds, g \in {"g1", UnknownGroup}, w \in StartDates :
       CreateEventStart(1, u, g, w)
  \/ Refresh(1)
  \/ RefreshSaved(1)
  \/ FileOpen(1)
  \/ FileWritten(1)
  \/ CreateEventInsert(1)
  \/ Reply(1)

SpecEvent == InitEvent /\ [][NextEvent]_vars

\* Two requests in flight (slots 1 and 2), one per slot, interleaved at
\* their awaits.  The store is the one two batches of one week leave: week
\* 14 of g1 is v1's, week 14 of g2 is v3's, each with its calendar event
\* (ids 8 and 9, handed out before the run);
\* v3's access token has expired since and v1's is about to, and the shared
\* client carries the credentials of either user.  The clock starts at noon
\* of day 7 and may move a week on while requests are suspended.
\* The later instants the clock may move to: noon of day 14, when week 14
\* has begun.
LaterClocks == {348}

\* Time passes; an access token whose expiry_date the clock has reached is
\* one createCalendarEvent will refresh.
Tick ==
  /\ \E t \in LaterClocks : t > now /\ now' = t
  /\ UNCHANGED <<groups, skipWeeks, rotations, tokens, calendar, nextEvent,
                 nextRot, zone, req, picks>>
  /\ UNCHANGED <<client, disk, writes, volume>>

InitConc ==
  /\ groups = [SeedGroups(<<[userId |-> "v3", orderPosition |-> 0]>>)
                 EXCEPT !["g1"].currentIndex = 1]
  /\ skipWeeks = <<>>
  /\ rotations = <<newRotation(1, "g1", "v1", 14, 8),
                   newRotation(2, "g2", "v3", 14, 9)>>
  /\ now = 180
  /\ tokens = Tokens({"v1"}, {"v3"}, now)
  /\ calendar = {<<"v1", 8>>, <<"v3", 9>>}
  /\ nextEvent = 1
  /\ nextRot = 3
  /\ zone = UTC
  /\ req = [s \in Slots |-> Idle]
  /\ picks = <<>>
  /\ client \in {"v1", "v3"}
  /\ Settled
  /\ volume \in Volumes

\* The numWeeks of the batch a slot may ask for: two weeks in slot 1, one
\* week in slot 2.
WeeksOf(s) == IF s = 1 THEN 2 ELSE 1

\* The accounts that go through the OAuth callback in these runs.
ConcAccounts == {"v1", "v3", NewUser}

\* The groups a slot's request may target: slot 1 works on g1, slot 2 on
\* either group.  The requests that touch no calendar (skip, create group,
\* OAuth callback) come in slot 2.
GroupsOf(s) == IF s = 1 THEN {"g1"} ELSE GroupIds

NextConc ==
  \/ \E s \in Slots :
       \E g \in GroupsOf(s) : TriggerStart(s, g, WeeksOf(s), 21)
  \/ \E s \in Slots : TriggerInsert(s)
  \/ \E s \in Slots : Refresh(s)
  \/ \E s \in Slots : RefreshSaved(s)
  \/ \E s \in Slots, k \in SwapKeys, to \in {"v1", "v3"} :
       k[1] \in GroupsOf(s) /\ SwapStart(s, k[1], k[2], k[3], to)
  \/ \E s \in Slots : SwapDelete(s)
  \/ \E s \in Slots : SwapInsert(s)
  \/ \E s \in Slots, id \in 1..nextRot : CancelStart(s, id)
  \/ \E s \in Slots : CancelDelete(s)
  \/ \E s \in Slots : \E g \in GroupsOf(s) : AddMember(s, g, "v9")
  \/ \E s \in Slots, u \in {"v1", "v3"} :
       \E g \in GroupsOf(s) : RemoveStart(s, g, u)
  \/ \E s \in Slots : RemoveDelete(s)
  \/ AddSkip(2, "v1", "g1", 21)
  \/ CreateGroup(2, 0, 9, 0)
  \/ \E u \in ConcAccounts : AuthStart(2, u)
  \/ \E s \in Slots : AuthToken(s)
  \/ \E s \in Slots : AuthUser(s)
  \/ \E s \in Slots : FileOpen(s)
  \/ \E s \in Slots : FileWritten(s)
  \/ \E s \in Slots : Saved(s)
  \/ Tick

SpecConc == InitConc /\ [][NextConc]_vars
\* ============================================================== claims
\* Vocabulary of the claims, stated without the operators of the model.

\* 0-based place of the k-th inserted member in ascending orderPosition
\* order (equal positions in insertion order).
Rank(members, k) ==
  Cardinality({j \in 1..Len(members) :
     \/ members[j].orderPosition < members[k].orderPosition
     \/ /\ members[j].orderPosition = members[k].orderPosition
        /\ j < k})

MemberAtRank(members, r) ==
  members[CHOOSE k \in 1..Len(members) : Rank(members, k) = r].userId

SkipRecorded(skips, u, g, w) ==
  \E i \in 1..Len(skips) : skips[i] = Skip(u, g, w)

MemberIds(members) == {members[k].userId : k \in 1..Len(members)}

\* The selector call that has just answered in slot 1.
SelectDone == req[1].op = "select" /\ req[1].pc = "done"

\* C1: with no skip week recorded for the group, consecutive successful
\* selections starting at cursor c0 pick the members in ascending
\* orderPosition order from place (c0 mod n) on, each member once in the
\* first n picks, and pick n+1 is the member of pick 1.
ThmC1 ==
  (picks # <<>> /\ ~\E i \in 1..Len(skipWeeks) :
                      skipWeeks[i].groupId = picks[1].groupId)
  => LET members == groups[picks[1].groupId].members
         n == Len(members)
         c0 == picks[1].cursor
         first == 1..(IF Len(picks) < n THEN Len(picks) ELSE n)
     IN  /\ n >= 1
         /\ \A i \in 1..Len(picks) :
              picks[i].userId = MemberAtRank(members, (c0 + i - 1) % n)
         /\ \A i, j \in first : i # j => picks[i].userId # picks[j].userId
         /\ Len(picks) >= n =>
              {picks[i].userId : i \in first} = MemberIds(members)
         /\ Len(picks) > n => picks[n + 1].userId = picks[1].userId

\* C1 witness: a group of at least two members whose insertion order is not
\* its orderPosition order, a starting cursor beyond the member count, and
\* n + 1 logged picks.
WitC1 ==
  /\ picks # <<>>
  /\ ~\E i \in 1..Len(skipWeeks) : skipWeeks[i].groupId = picks[1].groupId
  /\ LET members == groups[picks[1].groupId].members IN
       /\ Len(members) >= 2
       /\ Len(picks) = Len(members) + 1
       /\ picks[1].cursor >= Len(members)
       /\ members[1].orderPosition > members[2].orderPosition

\* C2: a selection on a group of n >= 1 members with cursor c returns the
\* member at place (c + k) mod n for the least k in 0..n-1 whose member has
\* no skip week for the period, leaves the cursor at ((c + k) mod n + 1)
\* mod n, and looks at no more than n candidates.
ThmC2 ==
  (SelectDone /\ req[1].groupId \in DOMAIN groups
     /\ Len(req[1].pre.groups[req[1].groupId].members) >= 1)
  => LET r == req[1]
         g == r.groupId
         members == r.pre.groups[g].members
         n == Len(members)
         c == r.pre.groups[g].currentIndex
         Free == {k \in 0..(n - 1) :
                    ~SkipRecorded(r.pre.skipWeeks,
                        MemberAtRank(members, (c + k) % n), g, r.targetDate)}
     IN  /\ r.examined <= n
         /\ Free # {} =>
              LET k == CHOOSE x \in Free : \A y \in Free : x <= y IN
              /\ r.status = 200
              /\ r.userId = MemberAtRank(members, (c + k) % n)
              /\ groups[g].currentIndex = (((c + k) % n) + 1) % n
              /\ r.examined = k + 1

\* C2 witness: three members and cursor 2; the candidates at places 2 and
\* 0 are skipped, the scan wraps around and returns the one at place 1.
WitC2 ==
  /\ SelectDone /\ req[1].status = 200 /\ req[1].examined = 3
  /\ req[1].pre.groups[req[1].groupId].currentIndex = 2
  /\ groups[req[1].groupId].currentIndex = 2

\* C3: a selection on a group with members fails with "All users have skip
\* weeks" exactly when every member has a skip week for the period, and then
\* the groups (cursor and members), skip weeks and rotations are those of
\* before the call.
ThmC3 ==
  (SelectDone /\ req[1].groupId \in DOMAIN groups
     /\ Len(req[1].pre.groups[req[1].groupId].members) >= 1)
  => LET r == req[1]
         members == r.pre.groups[r.groupId].members
         allSkipped == \A u \in MemberIds(members) :
                          SkipRecorded(r.pre.skipWeeks, u, r.groupId,
                                       r.targetDate)
     IN  /\ (r.error = "All users have skip weeks") <=> allSkipped
         /\ allSkipped => /\ r.status = 500
                          /\ groups = r.pre.groups
                          /\ skipWeeks = r.pre.skipWeeks
                          /\ rotations = r.pre.rotations

\* C3 witness: a failed selection on a group of two or more members, all
\* skipped, with a cursor that is not 0.
WitC3 ==
  /\ SelectDone /\ req[1].error = "All users have skip weeks"
  /\ Len(groups[req[1].groupId].members) >= 2
  /\ groups[req[1].groupId].currentIndex > 0

\* ---- batch scheduling (SpecTrig)
TriggerDone == req[1].op = "trigger" /\ req[1].pc = "done"
\* The answer of request r is the error of a rejected fs.writeFile.
WriteRefused(r) == r.error = "write failed"

\* The selection the specification describes, on members with cursor c.
RefFree(members, c, skips, g, w) ==
  {k \in 0..(Len(members) - 1) :
     ~SkipRecorded(skips, MemberAtRank(members, (c + k) % Len(members)),
                   g, w)}

RefSelect(members, c, skips, g, w) ==
  LET n == Len(members)
      Free == RefFree(members, c, skips, g, w)
  IN  IF n = 0 \/ Free = {} THEN [userId |-> NoUser, cursor |-> c]
      ELSE LET k == CHOOSE x \in Free : \A y \in Free : x <= y
           IN  [userId |-> MemberAtRank(members, (c + k) % n),
                cursor |-> (((c + k) % n) + 1) % n]

\* Assignees of k successive selections for the periods w, w + 7, ...
RECURSIVE RefAssignees(_, _, _, _, _, _)
RefAssignees(members, c, skips, g, w, k) ==
  IF k = 0 THEN <<>>
  ELSE LET sel == RefSelect(members, c, skips, g, w)
       IN  <<sel.userId>> \o
           RefAssignees(members, sel.cursor, skips, g, w + 7, k - 1)

\* C4: a trigger request for k periods that answers 200 has appended
\* exactly k rotations with status scheduled, the i-th for the period
\* start + 7 * i days and for the assignee of the i-th of k successive
\* selections.
OrigC4 ==
  (TriggerDone /\ req[1].status = 200)
  => LET r == req[1]
         g == r.pre.groups[r.groupId]
         expected == RefAssignees(g.members, g.currentIndex,
                        r.pre.skipWeeks, r.groupId, r.startDate, r.numWeeks)
     IN  /\ rotations = r.pre.rotations \o r.created
         /\ Len(r.created) = r.numWeeks
         /\ \A i \in 0..(r.numWeeks - 1) :
              /\ r.created[i + 1].status = "scheduled"
              /\ r.created[i + 1].groupId = r.groupId
              /\ r.created[i + 1].weekStartDate = r.startDate + 7 * i
              /\ r.created[i + 1].assignedUserId = expected[i + 1]

\* C5: when a trigger request has answered, with no write of data.json
\* refused, the number of times it set the group's cursor equals the number
\* of rotations it appended.
OrigC5 ==
  (TriggerDone /\ ~WriteRefused(req[1]))
  => /\ Len(req[1].curs) = Len(req[1].created)
     /\ rotations = req[1].pre.rotations \o req[1].created

\* C6: when the calendar create of iteration i fails, the rotations of
\* iterations 0..i-1 are in the store, their events are in the assignees'
\* calendars, the cursor is the one the last selection left (no advance is
\* undone), selector and calendar were each called i + 1 times and no more,
\* and the answer is an error.
ThmC6 ==
  (TriggerDone /\ req[1].failed = "calendar")
  => LET r == req[1] IN
     /\ r.status = 500
     /\ Len(r.created) = r.i
     /\ rotations = r.pre.rotations \o r.created
     /\ \A j \in 1..Len(r.created) :
          /\ r.created[j].calendarEventId # NoEvent
          /\ <<r.created[j].assignedUserId, r.created[j].calendarEventId>>
               \in calendar
     /\ r.pre.calendar \subseteq calendar
     /\ Len(r.curs) = r.i + 1
     /\ groups[r.groupId].currentIndex = r.curs[r.i + 1]
     /\ r.nSel = r.i + 1 /\ r.nCal = r.i + 1

\* C6 witness: the create of the second of three periods has failed.
WitC6 ==
  /\ TriggerDone /\ req[1].failed = "calendar"
  /\ req[1].i = 1 /\ req[1].numWeeks = 3
  /\ req[1].error = "insert failed"

\* C7: when the selector fails at iteration i, the selector was called
\* i + 1 times and the calendar i times, only the rotations of iterations
\* 0..i-1 were appended, the cursor is the one iteration i-1 left (that of
\* before the call when i = 0), and the answer is an error.
ThmC7 ==
  (TriggerDone /\ req[1].failed = "selector")
  => LET r == req[1] IN
     /\ r.status = 500
     /\ r.error \in {"All users have skip weeks", "Group has no members",
                     "Group not found"}
     /\ r.nSel = r.i + 1 /\ r.nCal = r.i
     /\ Len(r.created) = r.i
     /\ rotations = r.pre.rotations \o r.created
     /\ \A j \in 1..Len(r.created) :
          r.created[j].weekStartDate < r.targetDate
     /\ Len(r.curs) = r.i
     /\ IF r.i = 0 THEN groups = r.pre.groups
        ELSE groups = [r.pre.groups EXCEPT
                         ![r.groupId].currentIndex = r.curs[r.i]]

\* C7 witness: every member is skipped for the second of three periods.
WitC7 ==
  /\ TriggerDone /\ req[1].failed = "selector"
  /\ req[1].error = "All users have skip weeks"
  /\ req[1].i = 1 /\ req[1].numWeeks = 3

\* ---- scheduling, swapping and cancelling (Spec)
SwapDone == req[1].op = "swap" /\ req[1].pc = "done"
NoRequestRunning == req[1].pc \in {"idle", "done"}

\* C8: between requests, every rotation of the store that has a
\* calendarEventId names an event that exists in the calendar of the
\* rotation's assignedUserId.
OrigC8 ==
  NoRequestRunning
  => \A k \in 1..Len(rotations) :
       rotations[k].calendarEventId # NoEvent
       => <<rotations[k].assignedUserId, rotations[k].calendarEventId>>
            \in calendar

\* C9: a swap that answers 200 has changed nothing but assignedUserId,
\* calendarEventId and swappedAt of the rotation it looked up: that
\* rotation's other fields, all other rotations, the groups (members and
\* cursor) and the skip weeks are those of before the call.
ThmC9 ==
  (SwapDone /\ req[1].status = 200)
  => LET r == req[1]
         idx == CHOOSE k \in 1..Len(r.pre.rotations) :
                  /\ r.pre.rotations[k].groupId = r.groupId
                  /\ r.pre.rotations[k].weekStartDate = r.weekStartDate
                  /\ r.pre.rotations[k].assignedUserId = r.fromUserId
                  /\ \A j \in 1..(k - 1) :
                       \/ r.pre.rotations[j].groupId # r.groupId
                       \/ r.pre.rotations[j].weekStartDate # r.weekStartDate
                       \/ r.pre.rotations[j].assignedUserId # r.fromUserId
     IN  /\ groups = r.pre.groups
         /\ skipWeeks = r.pre.skipWeeks
         /\ Len(rotations) = Len(r.pre.rotations)
         /\ \A k \in 1..Len(rotations) :
              k # idx => rotations[k] = r.pre.rotations[k]
         /\ rotations[idx].assignedUserId = r.toUserId
         /\ rotations[idx].calendarEventId # NoEvent
         /\ rotations[idx].calendarEventId
              # r.pre.rotations[idx].calendarEventId
         /\ rotations[idx].swappedAt = "set"
         /\ [rotations[idx] EXCEPT
               !.assignedUserId = r.pre.rotations[idx].assignedUserId,
               !.calendarEventId = r.pre.rotations[idx].calendarEventId,
               !.swappedAt = r.pre.rotations[idx].swappedAt]
              = r.pre.rotations[idx]

\* C9 witness: a successful swap to another user in a store that holds
\* rotations of both groups, the swapped rotation not being the first.
WitC9 ==
  /\ SwapDone /\ req[1].status = 200
  /\ req[1].fromUserId # req[1].toUserId
  /\ Len(rotations) >= 2
  /\ rotations[1].id # req[1].rotationId
  /\ \E k \in 1..Len(rotations) : rotations[k].groupId # req[1].groupId

\* C10: when the delete of the old event or the create of the new one
\* fails, the swap answers with an error and the rotation it looked up has
\* the assignedUserId, calendarEventId and swappedAt of before the call.
ThmC10 ==
  (SwapDone /\ req[1].failed \in {"delete", "create"})
  => LET r == req[1] IN
     /\ r.status = 500
     /\ Len(rotations) = Len(r.pre.rotations)
     /\ \A k \in 1..Len(rotations) :
          rotations[k].id = r.rotationId
          => /\ r.pre.rotations[k].id = r.rotationId
             /\ rotations[k].assignedUserId
                  = r.pre.rotations[k].assignedUserId
             /\ rotations[k].calendarEventId
                  = r.pre.rotations[k].calendarEventId
             /\ rotations[k].swappedAt = r.pre.rotations[k].swappedAt
     /\ \E k \in 1..Len(rotations) : rotations[k].id = r.rotationId

\* C10 witness: the old event was deleted and the create then failed.
WitC10 ==
  /\ SwapDone /\ req[1].failed = "create" /\ req[1].error = "insert failed"
  /\ req[1].nDel = 1
  /\ <<req[1].fromUserId, req[1].eventId>> \notin calendar

\* C11: a swap of a rotation that has a calendarEventId and answers 200 has
\* made one calendar delete, of that event in fromUserId's calendar, and
\* one calendar create, for toUserId; a swap whose delete failed has made
\* no create and left the calendar alone; and the create of such a swap is
\* issued only in the step in which its delete succeeds.
ThmC11 ==
  /\ [](SwapDone /\ req[1].eventId # NoEvent =>
         LET r == req[1]
             old == <<r.fromUserId, r.eventId>>
             created == calendar \ r.pre.calendar
         IN  /\ r.status = 200 =>
                  /\ r.nDel = 1 /\ r.nIns = 1
                  /\ old \in r.pre.calendar /\ old \notin calendar
                  /\ r.pre.calendar \ calendar = {old}
                  /\ Cardinality(created) = 1
                  /\ \A e \in created : e[1] = r.toUserId
             /\ r.failed = "delete" =>
                  /\ r.status = 500 /\ r.nDel = 1 /\ r.nIns = 0
                  /\ calendar = r.pre.calendar)
  /\ [][(req'[1].op = "swap" /\ req'[1].eventId # NoEvent
           /\ req'[1].nIns = 1
           /\ (req[1].op # "swap" \/ req[1].nIns = 0))
         => /\ req[1].op = "swap" /\ req[1].pc = "delete"
            /\ req[1].nDel = 1
            /\ <<req[1].fromUserId, req[1].eventId>> \in calendar
            /\ <<req[1].fromUserId, req[1].eventId>> \notin calendar']_vars

\* C11 witness: a successful swap from one user to another of a rotation
\* that had an event: one delete, one create, the old event gone and the
\* new one in the calendar of toUserId.
WitC11 ==
  /\ SwapDone /\ req[1].status = 200 /\ req[1].eventId # NoEvent
  /\ req[1].fromUserId # req[1].toUserId
  /\ req[1].nDel = 1 /\ req[1].nIns = 1
  /\ \E e \in calendar \ req[1].pre.calendar : e[1] = req[1].toUserId

\* ---- every handler of the store (SpecStore)
CancelDone == req[1].op = "cancel" /\ req[1].pc = "done"
InStore(rots, id) == \E k \in 1..Len(rots) : rots[k].id = id

\* C12: when a cancel has answered 200, the rotation it names is not in the
\* store, every other rotation is, and the groups (cursors included) are
\* those of before the call; and no step of any handler brings back a
\* rotation id that was handed out and is no longer in the store.
ThmC12 ==
  /\ [](CancelDone /\ req[1].status = 200 =>
         LET r == req[1] IN
         /\ InStore(r.pre.rotations, r.rotationId)
         /\ ~InStore(rotations, r.rotationId)
         /\ r.rotationId < nextRot
         /\ Len(rotations) = Len(r.pre.rotations) - 1
         /\ \A k \in 1..Len(r.pre.rotations) :
              r.pre.rotations[k].id # r.rotationId
              => \E j \in 1..Len(rotations) :
                   rotations[j] = r.pre.rotations[k]
         /\ groups = r.pre.groups)
  /\ [][\A id \in 1..(nextRot - 1) :
          ~InStore(rotations, id) => ~InStore(rotations', id)]_vars

\* C12 witness: a cancel has answered 200 for a rotation that had a
\* calendar event, in a group whose cursor has moved on, while a rotation
\* scheduled after the cancelled one stays in the store.
WitC12 ==
  /\ CancelDone /\ req[1].status = 200 /\ req[1].nDel = 1
  /\ \E k \in 1..Len(req[1].pre.rotations) :
       /\ req[1].pre.rotations[k].id = req[1].rotationId
       /\ groups[req[1].pre.rotations[k].groupId].currentIndex # 0
  /\ \E j \in 1..Len(rotations) : rotations[j].id > req[1].rotationId

\* C13: when the calendar delete of a cancel fails, the answer is an error
\* and the rotations (the one named included, every field), the groups,
\* the skip weeks and the calendar are those of before the call.
ThmC13 ==
  (CancelDone /\ req[1].failed = "delete")
  => LET r == req[1] IN
     /\ r.status = 500 /\ r.error # ""
     /\ rotations = r.pre.rotations
     /\ \E k \in 1..Len(rotations) :
          /\ rotations[k].id = r.rotationId
          /\ rotations[k].calendarEventId = r.eventId
          /\ rotations[k].assignedUserId = r.calUser
     /\ groups = r.pre.groups
     /\ skipWeeks = r.pre.skipWeeks
     /\ calendar = r.pre.calendar

\* C13 witness: the provider rejected the delete of an event that exists,
\* in a store of two or more rotations.
WitC13 ==
  /\ CancelDone /\ req[1].failed = "delete"
  /\ <<req[1].calUser, req[1].eventId>> \in calendar
  /\ Len(rotations) >= 2

RemoveDone == req[1].op = "removeMember" /\ req[1].pc = "done"
\* Today's date (UTC), as a day number.
Today == now \div 24

\* C14: a remove-member request on a group of the store leaves exactly the
\* rotations of before the call that are not (of this group, assigned to
\* this user, with a period start on or after today's date), in their
\* order; a rotation whose period starts today is removed.
OrigC14 ==
  (RemoveDone /\ req[1].groupId \in DOMAIN groups)
  => LET r == req[1]
         Stays(x) == ~(/\ x.groupId = r.groupId
                       /\ x.assignedUserId = r.userId
                       /\ x.weekStartDate >= Today)
     IN  rotations = SelectSeq(r.pre.rotations, Stays)

\* C15: a remove-member request for a member of a group of the store, with
\* no write of data.json refused, answers 200, whatever calendar deletes
\* failed and whether or not the user has credentials: the user is no
\* longer a member and no rotation the handler matched (this group, this
\* user, period start not before the clock) is left in the store.
OrigC15 ==
  (RemoveDone /\ req[1].groupId \in DOMAIN groups
     /\ ~WriteRefused(req[1])
     /\ req[1].userId
          \in MemberIds(req[1].pre.groups[req[1].groupId].members))
  => LET r == req[1] IN
     /\ r.status = 200
     /\ r.userId \notin MemberIds(groups[r.groupId].members)
     /\ \A k \in 1..Len(rotations) :
          ~(/\ rotations[k].groupId = r.groupId
            /\ rotations[k].assignedUserId = r.userId
            /\ 24 * rotations[k].weekStartDate >= now)

\* ---- remove-member and the selector (SpecSel)
\* C16: a remove-member request on a group of the store leaves the cursor
\* at the value it had and the other members in their order; when members
\* remain, a selection on the store it leaves returns, for either period,
\* the first member without a skip week counted from place (cursor mod
\* remaining member count) of the orderPosition order, also when the cursor
\* is not below the remaining member count.
ThmC16 ==
  (RemoveDone /\ req[1].groupId \in DOMAIN groups)
  => LET r == req[1]
         g == r.groupId
         before == r.pre.groups[g]
         Others(m) == m.userId # r.userId
         members == groups[g].members
         c == groups[g].currentIndex
     IN  /\ c = before.currentIndex
         /\ members = SelectSeq(before.members, Others)
         /\ \A w \in SelDates :
              Len(members) >= 1 =>
                LET sel == getNextRotationAssignment(groups, skipWeeks, g, w)
                    ref == RefSelect(members, c, skipWeeks, g, w)
                IN  /\ sel.userId = ref.userId
                    /\ sel.error = "" <=> ref.userId # NoUser
                    /\ sel.error = "" =>
                         sel.groups[g].currentIndex = ref.cursor

\* C16 witness: a member was removed, at least two members remain and the
\* cursor is not below the number of members that remain.
WitC16 ==
  /\ RemoveDone /\ req[1].groupId \in DOMAIN groups
  /\ LET g == req[1].groupId IN
       /\ Len(groups[g].members) < Len(req[1].pre.groups[g].members)
       /\ Len(groups[g].members) >= 2
       /\ groups[g].currentIndex >= Len(groups[g].members)

\* ---- uniqueness in the store (SpecStore)
\* C17: between requests, no two rotations of the store have the same
\* groupId and period start.
OrigC17 ==
  NoRequestRunning
  => \A i, j \in 1..Len(rotations) :
       (/\ rotations[i].groupId = rotations[j].groupId
        /\ rotations[i].weekStartDate = rotations[j].weekStartDate)
       => i = j

SkipDone == req[1].op = "skip" /\ req[1].pc = "done"

\* C18: no two skip weeks of the store have the same userId, groupId and
\* period start; a skip request for a key the store holds answers with an
\* error and leaves the skip weeks as they were, and a request for any
\* other key appends that key.
ThmC18 ==
  /\ \A i, j \in 1..Len(skipWeeks) :
       (/\ skipWeeks[i].userId = skipWeeks[j].userId
        /\ skipWeeks[i].groupId = skipWeeks[j].groupId
        /\ skipWeeks[i].weekStartDate = skipWeeks[j].weekStartDate)
       => i = j
  /\ SkipDone =>
       LET r == req[1]
           key == Skip(r.userId, r.groupId, r.weekStartDate)
       IN  IF SkipRecorded(r.pre.skipWeeks, r.userId, r.groupId,
                           r.weekStartDate)
           THEN /\ r.status = 400 /\ r.error = "Skip already exists"
                /\ skipWeeks = r.pre.skipWeeks
           ELSE /\ r.status = 200
                /\ skipWeeks = Append(r.pre.skipWeeks, key)

\* C18 witness: a skip request was refused for a key the store holds,
\* while it holds other skip weeks of the same user that differ from the
\* key in the group only and in the period only.
WitC18 ==
  /\ SkipDone /\ req[1].status = 400
  /\ \E i, j \in 1..Len(skipWeeks) :
       /\ skipWeeks[i].userId = req[1].userId
       /\ skipWeeks[i].groupId # req[1].groupId
       /\ skipWeeks[i].weekStartDate = req[1].weekStartDate
       /\ skipWeeks[j].userId = req[1].userId
       /\ skipWeeks[j].groupId = req[1].groupId
       /\ skipWeeks[j].weekStartDate # req[1].weekStartDate

\* C19: in every group, no two members have the same orderPosition.
OrigC19 ==
  \A g \in DOMAIN groups :
    \A i, j \in 1..Len(groups[g].members) :
      groups[g].members[i].orderPosition = groups[g].members[j].orderPosition
      => i = j

\* ---- requests that fail validation (SpecReject)
\* The request in slot 1 has answered NotFound (unknown group in trigger,
\* add-member or remove-member; no rotation found by swap or cancel),
\* EmptyGroup or DuplicateSkip.
ValidationFailed ==
  /\ req[1].pc = "done"
  /\ \/ /\ req[1].op = "trigger" /\ req[1].failed = "selector"
        /\ req[1].error \in {"Group not found", "Group has no members"}
     \/ /\ req[1].op \in {"addMember", "removeMember", "swap", "cancel"}
        /\ req[1].status = 404
     \/ /\ req[1].op = "skip" /\ req[1].status = 400

\* C20: when a request has failed with NotFound, EmptyGroup or
\* DuplicateSkip, the users' credentials, the groups (members and cursor),
\* the skip weeks, the rotations and the calendar are those of before the
\* request, no event or rotation id was taken, and the request made no
\* calendar call.
ThmC20 ==
  ValidationFailed
  => LET r == req[1] IN
     /\ r.status \in {400, 404, 500}
     /\ tokens = r.pre.tokens
     /\ groups = r.pre.groups
     /\ skipWeeks = r.pre.skipWeeks
     /\ rotations = r.pre.rotations
     /\ calendar = r.pre.calendar
     /\ r.op = "trigger" => r.nCal = 0 /\ r.created = <<>> /\ r.i = 0
     /\ r.op = "swap" => r.nDel = 0 /\ r.nIns = 0
     /\ r.op = "cancel" => r.nDel = 0

\* C20 witness: a swap that names a (group, week, user) triple no rotation
\* has was answered 404, in a store that holds rotations (one of them
\* swapped earlier), a skip week and a group whose cursor has moved.
WitC20 ==
  /\ ValidationFailed /\ req[1].op = "swap"
  /\ rotations # <<>> /\ skipWeeks # <<>>
  /\ \E k \in 1..Len(rotations) : rotations[k].swappedAt # "unset"
  /\ \E g \in DOMAIN groups : groups[g].currentIndex # 0

\* ---- two selections in a row (SpecPass)
\* Slot 1 holds a selection that has answered and slot 2 the selection
\* that followed it on the same group.
TwoSelections ==
  /\ req[1].op = "select" /\ req[1].pc = "done"
  /\ req[2].op = "select" /\ req[2].pc = "done"
  /\ req[1].groupId = req[2].groupId
  /\ req[1].groupId \in DOMAIN groups

\* C21: in a group of at least three members with cursor c, when the member
\* at place c has a skip week for period P and the member at the next place
\* has none, the selection for P assigns the member at the next place; and
\* when the selection that follows is for a period for which no member has
\* a skip week, it assigns the member at the place after that one, not the
\* member that was passed over.
ThmC21 ==
  TwoSelections
  => LET r1 == req[1]
         r2 == req[2]
         g == r1.groupId
         members == r1.pre.groups[g].members
         n == Len(members)
         c == r1.pre.groups[g].currentIndex
         B == MemberAtRank(members, c % n)
         C == MemberAtRank(members, (c + 1) % n)
         A == MemberAtRank(members, (c + 2) % n)
     IN  (/\ n >= 3
          /\ SkipRecorded(r1.pre.skipWeeks, B, g, r1.targetDate)
          /\ ~SkipRecorded(r1.pre.skipWeeks, C, g, r1.targetDate))
         => /\ r1.status = 200 /\ r1.userId = C
            /\ r2.pre.groups[g].currentIndex = (c + 2) % n
            /\ (\A u \in MemberIds(members) :
                  ~SkipRecorded(r2.pre.skipWeeks, u, g, r2.targetDate))
               => /\ r2.status = 200
                  /\ r2.userId = A
                  /\ r2.userId # B

\* C21 witness: members [v1, v3, v9], cursor 1, v3 skipped for the first
\* period: v9 is assigned, the cursor is 0, and the selection that follows,
\* for the other period and with no skip week of the group for it, assigns
\* v1.
WitC21 ==
  /\ TwoSelections
  /\ req[1].pre.groups[req[1].groupId].currentIndex = 1
  /\ SkipRecorded(skipWeeks, "v3", "g1", req[1].targetDate)
  /\ req[1].userId = "v9"
  /\ req[2].pre.groups[req[1].groupId].currentIndex = 0
  /\ req[2].targetDate # req[1].targetDate
  /\ \A u \in UserIds : ~SkipRecorded(skipWeeks, u, "g1", req[2].targetDate)
  /\ req[2].userId = "v1"

\* ---- the calendar event of a rotation (SpecEvent)
CreateDone == req[1].op = "create" /\ req[1].pc = "done"
\* Minutes from day 0, 00:00, of a dateTime of the event's time zone.
MinuteOf(dt) == (dt.date * 24 + dt.hh) * 60 + dt.mm

\* C22: the event created for a period starts on the date of the period's
\* first day (a Monday) plus the days from Monday to the group's
\* dayOfWeek (1 = Monday ... 7 = Sunday), at the group's timeOfDay.
OrigC22 ==
  (CreateDone /\ req[1].status = 200)
  => LET r == req[1]
         schedule == groups[r.groupId].schedule
     IN  /\ r.event.start.date
              = getRotationDate(r.weekStartDate, schedule.dayOfWeek)
         /\ r.event.start.hh = schedule.hh
         /\ r.event.start.mm = schedule.mm

\* C23: the event created ends exactly 60 minutes after it starts.
OrigC23 ==
  (CreateDone /\ req[1].status = 200)
  => MinuteOf(req[1].event.end) - MinuteOf(req[1].event.start) = 60

\* ---- skip weeks against rotations (SpecStore)
\* C29: between requests, no rotation of the store is assigned to a user
\* who has a skip week for the rotation's group and period start.
OrigC29 ==
  NoRequestRunning
  => \A k \in 1..Len(rotations) :
       ~SkipRecorded(skipWeeks, rotations[k].assignedUserId,
                     rotations[k].groupId, rotations[k].weekStartDate)

\* ---- two requests in flight (SpecConc)
\* The group a request targets: the group it names, or for a cancel the
\* group of the rotation it names; an OAuth callback targets none.
TargetGroup(r) ==
  IF r.op = "callback" THEN UnknownGroup
  ELSE IF r.op = "cancel"
  THEN LET hits == {k \in 1..Len(r.pre.rotations) :
                      r.pre.rotations[k].id = r.rotationId}
       IN  IF hits = {} THEN UnknownGroup
           ELSE r.pre.rotations[CHOOSE k \in hits : TRUE].groupId
  ELSE r.groupId

\* What tells one step of a request from the next: the call it waits for
\* and, in a loop, the pass it is in.
Progress(r) == <<r.op, r.pc, IF "i" \in DOMAIN r THEN r.i ELSE 0>>

\* The rotations and the skip weeks of group g, in store order.
RotationsIn(rots, g) == LET In(r) == r.groupId = g IN SelectSeq(rots, In)
SkipsIn(skips, g) == LET In(k) == k.groupId = g IN SelectSeq(skips, In)

\* C24: a step that changes the members or the cursor of a group, one of
\* its rotations or one of its skip weeks is a step of a request that
\* targets that group, whatever the other slot's request is doing.
ThmC24 ==
  [][\A g \in GroupIds :
       (\/ groups'[g] # groups[g]
        \/ RotationsIn(rotations', g) # RotationsIn(rotations, g)
        \/ SkipsIn(skipWeeks', g) # SkipsIn(skipWeeks, g))
       => \E s \in Slots : /\ Progress(req'[s]) # Progress(req[s])
                           /\ TargetGroup(req'[s]) = g]_vars

\* Both slots have answered 200 for requests on different groups that
\* started from the same store, and both groups' rotations have changed.
WitC24 ==
  /\ req[1].pc = "done" /\ req[2].pc = "done"
  /\ req[1].status = 200 /\ req[2].status = 200
  /\ TargetGroup(req[1]) = "g1" /\ TargetGroup(req[2]) = "g2"
  /\ req[1].pre.rotations = req[2].pre.rotations
  /\ req[1].pre.groups = req[2].pre.groups
  /\ \A g \in GroupIds :
       RotationsIn(rotations, g) # RotationsIn(req[1].pre.rotations, g)

\* Both slots hold a batch request on the same group that has answered 200.
TwoBatches ==
  /\ \A s \in Slots : /\ req[s].op = "trigger" /\ req[s].pc = "done"
                      /\ req[s].status = 200
  /\ req[1].groupId = req[2].groupId

\* The rotations both batches created.
BothCreated == req[1].created \o req[2].created

\* The cursor of the batches' group before the first of the two calls.
InitialCursor ==
  LET first == CHOOSE s \in Slots : req[s].pre.earlier = {}
  IN  req[first].pre.groups[req[first].groupId].currentIndex

\* C25: two batches on one group with no skip weeks and no calendar
\* failure leave the cursor at (initial cursor + k) mod n, k being the
\* number of rotations both calls created, and assign, over both calls,
\* the members of the k cursor places that end at the final cursor, each
\* place once: no advance is lost and no member is assigned twice before
\* every other member has had a turn.
ThmC25 ==
  (TwoBatches /\ SkipsIn(skipWeeks, req[1].groupId) = <<>>)
  => LET g == req[1].groupId
         members == groups[g].members
         n == Len(members)
         k == Len(BothCreated)
         final == groups[g].currentIndex
     IN  /\ k = req[1].numWeeks + req[2].numWeeks
         /\ final = (InitialCursor + k) % n
         /\ \A u \in UserIds :
              Cardinality({j \in 1..k : BothCreated[j].assignedUserId = u})
              = Cardinality({j \in 1..k :
                   MemberAtRank(members, (final + n * k - j) % n) = u})
         /\ \A u \in MemberIds(members), v \in MemberIds(members) :
              Cardinality({j \in 1..k : BothCreated[j].assignedUserId = u})
              <= Cardinality({j \in 1..k :
                    BothCreated[j].assignedUserId = v}) + 1

\* The two batches overlapped: each made its selection before the other's
\* first rotation was stored, and together they went round the group.
WitC25 ==
  /\ TwoBatches /\ req[1].groupId = "g1"
  /\ req[1].pre.rotations = req[2].pre.rotations
  /\ {BothCreated[j].assignedUserId : j \in 1..Len(BothCreated)}
       = MemberIds(groups["g1"].members)

\* A remove-member request that went through its calendar deletes has
\* answered in slot s.
RemoveAnswered(s) ==
  /\ req[s].op = "removeMember" /\ req[s].pc = "done"
  /\ req[s].status = 200

\* C26: the number of future rotations a remove-member answer reports as
\* cancelled is the number of rotations the handler dropped from the store.
OrigC26 ==
  \A s \in Slots : RemoveAnswered(s) => req[s].count = req[s].removed

\* C27: a swap whose rotation another request has dropped from the store
\* while it was suspended in a calendar call does not, when that call
\* settles, create a calendar event or go on to its final save, after which
\* it answers 200.
OrigC27 ==
  [][\A s \in Slots :
       (/\ req[s].op = "swap" /\ req[s].pc \in {"delete", "insert"}
        /\ ~InStore(rotations, req[s].rotationId)
        /\ req'[s] # req[s])
       => /\ calendar' \subseteq calendar
          /\ req'[s].pc # "save"]_vars

\* C28: a calendar insert in flight was issued with the credentials of the
\* user createCalendarEvent was called for.
OrigC28 ==
  \A s \in Slots :
    req[s].pc = "insert" => req[s].creds = req[s].calUser

\* ---- the saved snapshot (SpecTrig)
\* C30: between requests, on a file system that refuses no write, the file
\* saveData last wrote holds the in-memory data: groups with their members
\* and cursors, skip weeks, rotations and the users' credentials.
OrigC30 ==
  (NoRequestRunning /\ volume = "ok")
  => disk = File(Store(groups, skipWeeks, rotations, tokens))
====
